---- MODULE Spec2Model ----
(***************************************************************************)
(* A model of the extraction-and-rewrite engine of react-intl-universal-   *)
(* forge: src/core/extract.ts (the run over the files), src/core/          *)
(* file-processor.ts (the two passes over one file, the residual scan) and *)
(* src/core/ast-utils.ts (the value extractor and its helpers).            *)
(*                                                                         *)
(* Strings are sequences of one-character tokens; a syntax node is a       *)
(* record [t, v, f, q, k, s, l]: Babel's type, a string payload, a flag,   *)
(* the quasis of a template literal, the children in Babel's visiting      *)
(* order, the start/end span (0: undefined) and the loc (0: undefined).    *)
(***************************************************************************)
EXTENDS Integers, Sequences, FiniteSets, TLC

\* ------------------------------------------------------------------ strings

\* CHINESE_REGEX = /[一-龥]/ : the tokens standing for characters in the range
ZhChars == {"Z1", "Z2", "Z3"}

\* \s of the regular expressions and of String.prototype.trim
WhiteChars == {" ", "\n"}

CHINESE_REGEX(text) == \E i \in DOMAIN text : text[i] \in ZhChars

RECURSIVE TrimLeft(_)
TrimLeft(text) ==
  IF text # <<>> /\ Head(text) \in WhiteChars THEN TrimLeft(Tail(text)) ELSE text

RECURSIVE TrimRight(_)
TrimRight(text) ==
  IF text # <<>> /\ text[Len(text)] \in WhiteChars
    THEN TrimRight(SubSeq(text, 1, Len(text) - 1))
    ELSE text

Trim(text) == TrimRight(TrimLeft(text))

\* value.replace(/\r?\n\s*/g, ''): a newline goes with the white space after it
RECURSIVE normalizeJSXTextContent(_)
normalizeJSXTextContent(text) ==
  IF text = <<>> THEN <<>>
  ELSE IF Head(text) = "\n" THEN normalizeJSXTextContent(TrimLeft(Tail(text)))
  ELSE <<Head(text)>> \o normalizeJSXTextContent(Tail(text))

RECURSIVE Flatten(_)
Flatten(seqs) == IF seqs = <<>> THEN <<>> ELSE Head(seqs) \o Flatten(Tail(seqs))

\* The names that occur as interpolation names, in the order of JavaScript's
\* default (UTF-16 code unit) string comparison
NameOrder == <<"count", "name", "user_name", "value0", "value1">>

NameRank(n) == CHOOSE i \in DOMAIN NameOrder : NameOrder[i] = n

\* Array.prototype.sort() with the default comparison
RECURSIVE SortNames(_)
SortNames(names) ==
  IF names = <<>> THEN <<>>
  ELSE LET m == CHOOSE i \in DOMAIN names :
                  \A j \in DOMAIN names :
                    \/ NameRank(names[i]) < NameRank(names[j])
                    \/ NameRank(names[i]) = NameRank(names[j]) /\ i <= j
       IN <<names[m]>> \o
          SortNames(SubSeq(names, 1, m - 1) \o SubSeq(names, m + 1, Len(names)))

\* ------------------------------------------------------------- syntax nodes

Node(t, v, f, q, k) == [t |-> t, v |-> v, f |-> f, q |-> q, k |-> k, s |-> 0, l |-> 0]

StringLiteral(text)        == Node("StringLiteral", text, "", <<>>, <<>>)
Identifier(name)           == Node("Identifier", <<name>>, "", <<>>, <<>>)
TemplateLiteral(qs, es)    == Node("TemplateLiteral", <<>>, "", qs, es)
MemberExpression(obj, p)   == Node("MemberExpression", <<p>>, "", <<>>, <<obj>>)
OptionalMemberExpression(obj, p) ==
  Node("OptionalMemberExpression", <<p>>, "", <<>>, <<obj>>)
CallExpression(callee, args) == Node("CallExpression", <<>>, "", <<>>, <<callee>> \o args)
OptionalCallExpression(callee, args) ==
  Node("OptionalCallExpression", <<>>, "", <<>>, <<callee>> \o args)
ConditionalExpression(test, c, a) ==
  Node("ConditionalExpression", <<>>, "", <<>>, <<test, c, a>>)
LogicalExpression(op, a, b) == Node("LogicalExpression", <<op>>, "", <<>>, <<a, b>>)
BinaryExpression(op, a, b) == Node("BinaryExpression", <<op>>, "", <<>>, <<a, b>>)
ArrayExpression(els)       == Node("ArrayExpression", <<>>, "", <<>>, els)
ObjectExpression(props)    == Node("ObjectExpression", <<>>, "", <<>>, props)
ObjectProperty(key, flag, value) == Node("ObjectProperty", <<key>>, flag, <<>>, <<value>>)
ReturnStatement(arg)       == Node("ReturnStatement", <<>>, "", <<>>, <<arg>>)
\* a getter: get key() { return <arg> }
ObjectMethod(key, flag, arg) == Node("ObjectMethod", <<key>>, flag, <<>>, <<ReturnStatement(arg)>>)
ArrowFunctionExpression(flag, body) ==
  Node("ArrowFunctionExpression", <<>>, flag, <<>>, body)
FunctionDeclaration(name, body) == Node("FunctionDeclaration", <<name>>, "", <<>>, body)
VariableDeclarator(name, init) == Node("VariableDeclarator", <<name>>, "", <<>>, <<init>>)
ExpressionStatement(e)     == Node("ExpressionStatement", <<>>, "", <<>>, <<e>>)
JSXText(text)              == Node("JSXText", text, "", <<>>, <<>>)
JSXExpressionContainer(e)  == Node("JSXExpressionContainer", <<>>, "", <<>>, <<e>>)
JSXAttribute(name, value)  == Node("JSXAttribute", <<name>>, "", <<>>, <<value>>)
\* the children of a JSXElement follow its opening element (which holds the attributes)
JSXElement(attrs, children) ==
  Node("JSXElement", <<>>, "", <<>>,
       <<Node("JSXOpeningElement", <<>>, "", <<>>, attrs)>> \o children)
JSXFragment(children)      == Node("JSXFragment", <<>>, "", <<>>, children)
Program(body)              == Node("Program", <<>>, "", <<>>, body)

\* the callee and the arguments of a call node
Callee(call) == call.k[1]
Arguments(call) == Tail(call.k)

\* @babel/parser: every node gets its own start/end and loc. A node's position
\* is its number in the order in which the source lists the nodes: a node comes
\* before its children, a child before the next one.
RECURSIVE Size(_)
Size(node) ==
  LET RECURSIVE Sum(_)
      Sum(i) == IF i > Len(node.k) THEN 0 ELSE Size(node.k[i]) + Sum(i + 1)
  IN 1 + Sum(1)

RECURSIVE Parse(_, _)
Parse(node, pos) ==
  LET RECURSIVE Before(_)
      Before(i) == IF i = 1 THEN pos + 1 ELSE Before(i - 1) + Size(node.k[i - 1])
  IN [node EXCEPT !.s = pos, !.l = pos,
                  !.k = [i \in DOMAIN node.k |-> Parse(node.k[i], Before(i))]]

\* t.cloneNode(node, true): the clone keeps loc and drops start/end
RECURSIVE cloneNode(_)
cloneNode(node) ==
  [node EXCEPT !.s = 0, !.k = [i \in DOMAIN node.k |-> cloneNode(node.k[i])]]

\* ------------------------------------------------------- src/core/ast-utils.ts

\* The configuration's skipFunctionCalls, one list of segments for each dotted
\* name: the default's 'console' and a name with a dot, which is matched exactly
skipFunctionCalls == << <<"console">>, <<"logger", "debug">> >>

\* null, the name that could not be resolved
Null == <<>>

\* generate(expr).code.replace(/[^a-zA-Z0-9]/g, '_') of a member expression
RECURSIVE MemberCode(_)
MemberCode(expr) ==
  IF expr.t = "Identifier" THEN expr.v[1]
  ELSE IF expr.t \in {"MemberExpression", "OptionalMemberExpression"}
    THEN MemberCode(expr.k[1]) \o "_" \o expr.v[1]
  ELSE "_"

\* a slot named after its position whatever its expression is
SlotByPosition(expr, i) == "value" \o ToString(i)

\* the name of the i-th interpolation slot (i counts from 0)
SlotName(expr, i) ==
  IF expr.t = "Identifier" THEN expr.v[1]
  ELSE IF expr.t = "MemberExpression" THEN MemberCode(expr)
  ELSE "value" \o ToString(i)

RECURSIVE parseText(_, _, _)
parseText(quasis, expressions, i) ==
  IF i > Len(quasis) THEN <<>>
  ELSE quasis[i]
       \o (IF i <= Len(expressions)
             THEN <<"{", SlotName(expressions[i], i - 1), "}">> ELSE <<>>)
       \o parseText(quasis, expressions, i + 1)

parseTemplateLiteral(node) ==
  [text |-> parseText(node.q, node.k, 1),
   vars |-> [i \in 1..(IF Len(node.k) < Len(node.q) THEN Len(node.k) ELSE Len(node.q)) |->
               [name |-> SlotName(node.k[i], i - 1), expr |-> node.k[i]]]]

VarNames(vars) == [i \in DOMAIN vars |-> vars[i].name]

createIntlGetCallExpression(key, vars) ==
  CallExpression(
    MemberExpression(Identifier("intl"), "get"),
    <<StringLiteral(key)>> \o
    (IF Len(vars) > 0
       THEN <<ObjectExpression(
                [i \in DOMAIN vars |->
                   ObjectProperty(vars[i].name,
                     IF vars[i].expr.t = "Identifier" /\ vars[i].expr.v = <<vars[i].name>>
                       THEN "shorthand" ELSE "",
                     vars[i].expr)])>>
       ELSE <<>>))

isIntlGetCall(callee) ==
  /\ callee.t = "MemberExpression"
  /\ callee.k[1].t = "Identifier"
  /\ callee.k[1].v = <<"intl">>
  /\ callee.v[1] \in {"get", "getHTML"}

\* whether the node is a call of intl.get / intl.getHTML
IsLookupCall(node) == node.t = "CallExpression" /\ isIntlGetCall(Callee(node))

getFunctionName(callee) ==
  IF callee.t = "Identifier" THEN callee.v
  ELSE IF callee.t = "MemberExpression"
    THEN IF callee.k[1].t = "Identifier"
           THEN <<callee.k[1].v[1], callee.v[1]>>
           ELSE callee.v
  ELSE Null

shouldSkipFunctionCall(funcName) ==
  IF funcName = Null THEN TRUE
  ELSE \E i \in DOMAIN skipFunctionCalls :
         LET skip == skipFunctionCalls[i] IN
         IF Len(skip) > 1
           THEN funcName = skip
           ELSE funcName = skip \/ (Len(funcName) > 1 /\ funcName[1] = skip[1])

getObjectPropertyKey(prop) ==
  IF prop.t # "ObjectProperty" \/ prop.f = "computed" THEN Null ELSE prop.v

RECURSIVE flattenBinaryExpressionParts(_)
flattenBinaryExpressionParts(node) ==
  IF node.t = "BinaryExpression" /\ node.v = <<"+">>
    THEN flattenBinaryExpressionParts(node.k[1]) \o flattenBinaryExpressionParts(node.k[2])
    ELSE <<node>>

\* whether a part of a concatenation is static text
IsStaticPart(part) ==
  part.t = "StringLiteral" \/ (part.t = "TemplateLiteral" /\ Len(part.k) = 0)

StaticValue(part) == IF part.t = "StringLiteral" THEN part.v ELSE Flatten(part.q)

\* the quasis of the converted concatenation: the static pieces between the slots
RECURSIVE PartQuasis(_, _)
PartQuasis(parts, buffer) ==
  IF parts = <<>> THEN <<buffer>>
  ELSE IF IsStaticPart(Head(parts))
    THEN PartQuasis(Tail(parts), buffer \o StaticValue(Head(parts)))
    ELSE <<buffer>> \o PartQuasis(Tail(parts), <<>>)

\* null (here: a node of type "null") or the template literal of the concatenation
NullNode == Node("null", <<>>, "", <<>>, <<>>)

buildTemplateLiteralFromBinaryExpression(node) ==
  IF ~(node.t = "BinaryExpression" /\ node.v = <<"+">>) THEN NullNode
  ELSE LET parts == flattenBinaryExpressionParts(node)
           hasChinese == \E i \in DOMAIN parts :
                           IsStaticPart(parts[i]) /\ CHINESE_REGEX(StaticValue(parts[i]))
           exprs == SelectSeq(parts, LAMBDA p : ~IsStaticPart(p))
       IN IF exprs = <<>> \/ ~hasChinese THEN NullNode
          ELSE TemplateLiteral(PartQuasis(parts, <<>>),
                               [i \in DOMAIN exprs |-> cloneNode(exprs[i])])

\* ---------------------------------------------------------- key generation

\* The characters of the model, with the code each contributes to a digest
Alphabet == <<"Z1", "Z2", "Z3", "a", " ", "\n", "{", "}", "?",
              "count", "name", "user_name", "value0", "value1">>

CharCode(c) == CHOOSE i \in DOMAIN Alphabet : Alphabet[i] = c

\* The number of values of md5(text).substring(0, hashLength): distinct texts
\* can share a digest
DigestRange == 2

RECURSIVE CodeSum(_)
CodeSum(text) == IF text = <<>> THEN 0 ELSE CharCode(Head(text)) + CodeSum(Tail(text))

Digest(text) == "h" \o ToString(CodeSum(text) % DigestRange)

\* keyGeneration.maxSemanticLength
maxSemanticLength == 6

\* identifyTextType: a text ending in a question mark is a 'confirm' (the other
\* classes test for Chinese words, which the three Chinese characters of the
\* model do not spell)
identifyTextType(text) ==
  IF text # <<>> /\ text[Len(text)] = "?" THEN "confirm" ELSE "text"

extractSemantic(text, maxLength) ==
  LET cleaned == SelectSeq(text, LAMBDA c : c \notin WhiteChars \cup {"?"})
  IN SubSeq(cleaned, 1, IF Len(cleaned) < maxLength THEN Len(cleaned) ELSE maxLength)

buildSemanticKey(text, context, strategy) ==
  IF strategy = "hash" THEN <<context, ".", Digest(text)>>
  ELSE <<context, ".", identifyTextType(text), ".">>
       \o extractSemantic(text, maxSemanticLength) \o <<"_", Digest(text)>>

\* generateSemanticKey run through sanitizeAIKey: the Chinese characters are
\* dropped, which leaves the type prefix and the digest
buildSafeFallbackKey(text) ==
  <<identifyTextType(text)>>
  \o SelectSeq(extractSemantic(text, maxSemanticLength),
               LAMBDA c : c \notin ZhChars \cup {"{", "}"})
  \o <<Digest(text)>>

generateKeySync(text, context, strategy) ==
  IF strategy = "ai"
    THEN <<context, ".">> \o buildSafeFallbackKey(text)
    ELSE buildSemanticKey(text, context, strategy)

\* ------------------------------------------------------ the translation table
\* An object in insertion order: a sequence of entries with distinct keys.

HasKey(table, key) == \E i \in DOMAIN table : table[i].key = key

\* translations[key] = { text, context, interpolations }
PutEntry(table, key, text, file, names) ==
  LET e == [key |-> key, text |-> text, context |-> file, interpolations |-> names]
  IN IF HasKey(table, key)
       THEN [i \in DOMAIN table |-> IF table[i].key = key THEN e ELSE table[i]]
       ELSE Append(table, e)

\* Object.entries(translations).find(...) for a text with interpolation names:
\* the index of the first entry with this text and, sorted, these names (0: none)
SameNames(a, b) == SortNames(a) = SortNames(b)

FindIndex(table, text, names) ==
  LET hits == {i \in DOMAIN table :
                 table[i].text = text /\ SameNames(table[i].interpolations, names)}
  IN IF hits = {} THEN 0 ELSE CHOOSE i \in hits : \A j \in hits : i <= j

\* existingVars.sort() sorts the stored list of every entry the search compares
\* names with: the entries with this text up to the one found
SortProbed(table, text, names) ==
  LET found == FindIndex(table, text, names)
      last == IF found = 0 THEN Len(table) ELSE found
  IN [i \in DOMAIN table |->
        IF i <= last /\ table[i].text = text
          THEN [table[i] EXCEPT !.interpolations = SortNames(@)]
          ELSE table[i]]

\* the search of extractValue for a string literal: no sort, no interpolations
FindPlainIndex(table, text) ==
  LET hits == {i \in DOMAIN table :
                 table[i].text = text /\ Len(table[i].interpolations) = 0}
  IN IF hits = {} THEN 0 ELSE CHOOSE i \in hits : \A j \in hits : i <= j

\* ------------------------------- src/core/file-processor.ts: the child merger

IsMergeText(child) == child.t = "JSXText"
IsMergeExpression(child) ==
  child.t = "JSXExpressionContainer" /\ child.k[1].t # "JSXEmptyExpression"

\* the items of a group: text items carry the normalized text
GroupItem(child) ==
  IF IsMergeText(child)
    THEN [type |-> "text", value |-> normalizeJSXTextContent(child.v), expression |-> NullNode]
    ELSE [type |-> "expression", value |-> <<>>, expression |-> child.k[1]]

RECURSIVE GroupQuasis(_, _)
GroupQuasis(group, buffer) ==
  IF group = <<>> THEN <<buffer>>
  ELSE IF Head(group).type = "text"
    THEN GroupQuasis(Tail(group), buffer \o Head(group).value)
    ELSE <<buffer>> \o GroupQuasis(Tail(group), <<>>)

buildTemplateExpressionFromGroup(group) ==
  LET exprs == SelectSeq(group, LAMBDA item : item.type = "expression")
  IN JSXExpressionContainer(
       TemplateLiteral(GroupQuasis(group, <<>>),
                       [i \in DOMAIN exprs |-> cloneNode(exprs[i].expression)]))

\* the end of the run of text and expression children that starts at index
RECURSIVE RunEnd(_, _)
RunEnd(children, cursor) ==
  IF cursor <= Len(children)
     /\ (IsMergeText(children[cursor]) \/ IsMergeExpression(children[cursor]))
    THEN RunEnd(children, cursor + 1)
    ELSE cursor

RECURSIVE mergeFrom(_, _)
mergeFrom(children, index) ==
  IF index > Len(children) THEN <<>>
  ELSE LET child == children[index] IN
       IF ~IsMergeText(child) /\ ~IsMergeExpression(child)
         THEN <<child>> \o mergeFrom(children, index + 1)
         ELSE LET cursor == RunEnd(children, index)
                  group == [i \in 1..(cursor - index) |-> GroupItem(children[index + i - 1])]
                  hasChinese == \E i \in DOMAIN group :
                                  group[i].type = "text" /\ CHINESE_REGEX(group[i].value)
                  hasExpression == \E i \in DOMAIN group : group[i].type = "expression"
                  hasMeaningfulText == \E i \in DOMAIN group :
                                         group[i].type = "text" /\ Trim(group[i].value) # <<>>
              IN IF hasChinese /\ hasExpression /\ hasMeaningfulText
                   THEN <<buildTemplateExpressionFromGroup(group)>> \o mergeFrom(children, cursor)
                   ELSE <<child>> \o mergeFrom(children, index + 1)

\* children that are left as they are
KeepChildren(children) == children

mergeChildren(children) == mergeFrom(children, 1)

\* the traversal that merges the children of every JSXElement and JSXFragment,
\* the outer element first
RECURSIVE mergeJSXTextWithExpressions(_)
mergeJSXTextWithExpressions(node) ==
  LET kids == IF node.t = "JSXElement" THEN <<node.k[1]>> \o mergeChildren(Tail(node.k))
              ELSE IF node.t = "JSXFragment" THEN mergeChildren(node.k)
              ELSE node.k
  IN [node EXCEPT !.k = [i \in DOMAIN kids |-> mergeJSXTextWithExpressions(kids[i])]]

fileContainsJSX(node) ==
  LET RECURSIVE Has(_)
      Has(n) == n.t \in {"JSXElement", "JSXFragment"} \/ \E i \in DOMAIN n.k : Has(n.k[i])
  IN Has(node)

\* ------------------------------------------- src/core/file-processor.ts: paths
\* A path is a node with its ancestors: a sequence of frames [n, i], the root
\* first, each holding an ancestor and the index of the child the path goes into.

Frame(node, i) == [n |-> node, i |-> i]

IsCall(node) == node.t \in {"CallExpression", "OptionalCallExpression"}

shouldSkipNode(anc) == \E j \in DOMAIN anc : IsLookupCall(anc[j].n)

RuntimeScopeTypes ==
  {"FunctionDeclaration", "FunctionExpression", "ArrowFunctionExpression", "ObjectMethod",
   "ClassMethod", "ClassPrivateMethod"}

isInsideRuntimeScope(anc) == \E j \in DOMAIN anc : anc[j].n.t \in RuntimeScopeTypes

InsidePlus(anc) ==
  \E j \in DOMAIN anc : anc[j].n.t = "BinaryExpression" /\ anc[j].n.v = <<"+">>

ParentType(anc) == IF anc = <<>> THEN "File" ELSE anc[Len(anc)].n.t

\* the nearest enclosing call (0: none)
CallParent(anc) ==
  LET calls == {j \in DOMAIN anc : IsCall(anc[j].n)}
  IN IF calls = {} THEN 0 ELSE CHOOSE j \in calls : \A m \in calls : m <= j

\* funcName || 'anonymous'
OrElse(funcName, other) == IF funcName = Null THEN <<other>> ELSE funcName

\* null, or the name of the skip-listed call the path is an argument of
getSkippedFunctionForPath(anc) ==
  LET c == CallParent(anc) IN
  IF c = 0 THEN Null
  ELSE LET funcName == getFunctionName(Callee(anc[c].n)) IN
       IF ~shouldSkipFunctionCall(funcName) THEN Null
       ELSE IF anc[c].i >= 2 THEN OrElse(funcName, "anonymous")
       ELSE Null

\* ---------------------------------------------------------------- samples

getNodeLocation(node) == node.l

\* `${nodeType}:${line}:${column}:${text}`
buildSampleKey(node, nodeType, text) == <<nodeType, getNodeLocation(node), text>>

Sample(node, text, nodeType, reason) ==
  [text |-> text, nodeType |-> nodeType, reason |-> reason, loc |-> getNodeLocation(node),
   key |-> buildSampleKey(node, nodeType, text)]

SampleKeys(samples) == {samples[i].key : i \in DOMAIN samples}

\* addUnrecognizedSample: a sample whose key is recorded is not recorded again
addUnrecognizedSample(samples, node, text, nodeType, reason) ==
  IF buildSampleKey(node, nodeType, text) \in SampleKeys(samples) THEN samples
  ELSE Append(samples, Sample(node, text, nodeType, reason))

RECURSIVE addAllUnrecognized(_, _)
addAllUnrecognized(samples, new) ==
  IF new = <<>> THEN samples
  ELSE addAllUnrecognized(
         LET x == Head(new) IN
         IF x.key \in SampleKeys(samples) THEN samples ELSE Append(samples, x),
         Tail(new))

\* --------------------------------------------------------- Pass 1: collection
\* The visitors of collectAndGenerateKeys. Each yields events in visiting order:
\* a text to translate (kind "item") or an unrecognized sample (kind "sample").

Item(text, type, node, names) ==
  [kind |-> "item", text |-> text, type |-> type, nodeStart |-> node.s, names |-> names,
   key |-> Null, sample |-> Sample(node, text, type, <<>>)]

Skipped(node, text, nodeType, reason) ==
  [kind |-> "sample", text |-> text, type |-> nodeType, nodeStart |-> node.s, names |-> <<>>,
   key |-> Null, sample |-> Sample(node, text, nodeType, reason)]

SkipReason(funcName) == <<"skipFunctionCall">> \o funcName

CollectJSXText(node, anc, isDataFile) ==
  LET text == Trim(node.v) IN
  IF text = <<>> \/ ~CHINESE_REGEX(text) THEN <<>>
  ELSE IF isDataFile THEN <<Skipped(node, text, "jsx-text", <<"data-file-skip">>)>>
  ELSE IF shouldSkipNode(anc) THEN <<>>
  ELSE <<Item(text, "jsx-text", node, <<>>)>>

CollectTemplateLiteral(node, anc) ==
  IF shouldSkipNode(anc) \/ ParentType(anc) = "ObjectProperty" THEN <<>>
  ELSE LET result == parseTemplateLiteral(node)
           skippedFunc == getSkippedFunctionForPath(anc)
       IN IF ~CHINESE_REGEX(result.text) THEN <<>>
          ELSE IF skippedFunc # Null
            THEN <<Skipped(node, result.text, "template-literal", SkipReason(skippedFunc))>>
          ELSE <<Item(result.text, "template", node, VarNames(result.vars))>>

CollectStringLiteral(node, anc) ==
  LET text == node.v
      skippedFunc == getSkippedFunctionForPath(anc)
  IN IF ~CHINESE_REGEX(text) \/ shouldSkipNode(anc) THEN <<>>
     ELSE IF skippedFunc # Null
       THEN <<Skipped(node, text, "string-literal", SkipReason(skippedFunc))>>
     ELSE IF InsidePlus(anc) THEN <<>>
     ELSE <<Item(text, "string", node, <<>>)>>

CollectBinaryExpression(node, anc) ==
  IF node.v # <<"+">> THEN <<>>
  ELSE IF ParentType(anc) = "BinaryExpression" /\ anc[Len(anc)].n.v = <<"+">> THEN <<>>
  ELSE IF shouldSkipNode(anc) THEN <<>>
  ELSE LET conversion == buildTemplateLiteralFromBinaryExpression(node) IN
       IF conversion = NullNode THEN <<>>
       ELSE LET result == parseTemplateLiteral(conversion)
                skippedFunc == getSkippedFunctionForPath(anc)
            IN IF ~CHINESE_REGEX(result.text) THEN <<>>
               ELSE IF skippedFunc # Null
                 THEN <<Skipped(node, result.text, "template-literal",
                                SkipReason(skippedFunc))>>
               ELSE <<Item(result.text, "binary", node, VarNames(result.vars))>>

\* the visitor of Pass 1 for the node
CollectOwn(node, anc, isDataFile) ==
  CASE node.t = "JSXText" -> CollectJSXText(node, anc, isDataFile)
    [] node.t = "TemplateLiteral" -> CollectTemplateLiteral(node, anc)
    [] node.t = "StringLiteral" -> CollectStringLiteral(node, anc)
    [] node.t = "BinaryExpression" -> CollectBinaryExpression(node, anc)
    [] OTHER -> <<>>

RECURSIVE CollectNode(_, _, _)
CollectNode(node, anc, isDataFile) ==
  CollectOwn(node, anc, isDataFile)
  \o Flatten([i \in DOMAIN node.k |->
                CollectNode(node.k[i], Append(anc, Frame(node, i)), isDataFile)])

\* ------------------------------------------ src/core/ast-utils.ts: extractValue
\* The result { replacementNode, hasExtraction } or null, with the table as the
\* call leaves it: [has, node, table]. env holds what the call is given:
\* [context, file, strategy].

MAX_RECURSION_DEPTH == 10

NoExtraction(node, table) == [has |-> FALSE, node |-> node, table |-> table]
Extraction(node, table) == [has |-> TRUE, node |-> node, table |-> table]

\* 1. a string literal: the key of the first entry with this text and no
\* interpolations, or a new key and a new entry
ExtractStringLiteral(node, env, table) ==
  IF ~CHINESE_REGEX(node.v) THEN NoExtraction(node, table)
  ELSE LET found == FindPlainIndex(table, node.v)
           key == IF found # 0 THEN table[found].key
                  ELSE generateKeySync(node.v, env.context, env.strategy)
       IN Extraction(createIntlGetCallExpression(key, <<>>),
                     IF found # 0 THEN table
                     ELSE PutEntry(table, key, node.v, env.file, <<>>))

\* 2. the static part of a template literal, after its expressions
ExtractTemplateText(node, env, table, hasNestedExtraction) ==
  LET result == parseTemplateLiteral(node)
      currentVars == VarNames(result.vars)
  IN IF ~CHINESE_REGEX(result.text)
       THEN (IF hasNestedExtraction THEN Extraction(node, table)
             ELSE NoExtraction(node, table))
       ELSE LET found == FindIndex(table, result.text, currentVars)
                probed == SortProbed(table, result.text, currentVars)
                key == IF found # 0 THEN table[found].key
                       ELSE generateKeySync(result.text, env.context, env.strategy)
                \* currentVars.sort() ran if an entry with this text was compared
                stored == IF \E i \in DOMAIN table : table[i].text = result.text
                            THEN SortNames(currentVars) ELSE currentVars
            IN Extraction(createIntlGetCallExpression(key, result.vars),
                          IF found # 0 THEN probed
                          ELSE PutEntry(probed, key, result.text, env.file, stored))

RECURSIVE extractValue(_, _, _, _)
RECURSIVE ExtractEach(_, _, _, _)

\* extractValue over a list of nodes, in order: [has, each, nodes, table], where
\* each[i] tells whether the i-th node was extracted
EachResult(first, rest) ==
  [has |-> first.has \/ rest.has,
   each |-> <<first.has>> \o rest.each,
   nodes |-> <<first.node>> \o rest.nodes,
   table |-> rest.table]

ExtractRest(nodes, env, first, depth) ==
  EachResult(first, ExtractEach(Tail(nodes), env, first.table, depth))

ExtractEach(nodes, env, table, depth) ==
  IF nodes = <<>> THEN [has |-> FALSE, each |-> <<>>, nodes |-> <<>>, table |-> table]
  ELSE ExtractRest(nodes, env, extractValue(Head(nodes), env, table, depth), depth)

\* 3./4. a conditional or logical expression: the test of a conditional is kept
BranchesResult(valueNode, first, inner) ==
  IF inner.has
    THEN Extraction(Node(valueNode.t, valueNode.v, "", <<>>,
                         SubSeq(valueNode.k, 1, first - 1) \o inner.nodes),
                    inner.table)
    ELSE NoExtraction(valueNode, inner.table)

\* 5. an array expression
ArrayResult(valueNode, inner) ==
  IF inner.has THEN Extraction(ArrayExpression(inner.nodes), inner.table)
  ELSE NoExtraction(valueNode, inner.table)

\* 6. a concatenation that could not be converted: its two sides
SidesResult(valueNode, inner) ==
  IF inner.has
    THEN Extraction(BinaryExpression("+", inner.nodes[1], inner.nodes[2]), inner.table)
    ELSE NoExtraction(valueNode, inner.table)

\* 7. a call: its arguments
ArgumentsResult(valueNode, inner) ==
  IF inner.has
    THEN Extraction(CallExpression(Callee(valueNode), inner.nodes), inner.table)
    ELSE NoExtraction(valueNode, inner.table)

\* 8. a property of an object expression whose value was extracted
ExtractedProperty(prop, value) ==
  IF getObjectPropertyKey(prop) = <<"label">> /\ prop.f # "shorthand"
    THEN ObjectMethod(prop.v[1], "get", value)
    ELSE ObjectProperty(prop.v[1], prop.f, value)

PropertiesResult(valueNode, inner) ==
  IF inner.has
    THEN Extraction(
           ObjectExpression(
             [i \in DOMAIN valueNode.k |->
                IF inner.each[i] THEN ExtractedProperty(valueNode.k[i], inner.nodes[i])
                ELSE valueNode.k[i]]),
           inner.table)
    ELSE NoExtraction(valueNode, inner.table)

\* the values of the properties of an object expression
PropertyValues(valueNode) ==
  [i \in DOMAIN valueNode.k |->
     IF valueNode.k[i].t = "ObjectProperty" THEN valueNode.k[i].k[1] ELSE NullNode]

\* 10. a function: its expression body, or the arguments of the return
\* statements of its block body
BodyResult(valueNode, inner) ==
  IF inner.has THEN Extraction([valueNode EXCEPT !.k = <<inner.node>>], inner.table)
  ELSE NoExtraction(valueNode, inner.table)

ReturnArguments(body) ==
  [i \in DOMAIN body |->
     IF body[i].t = "ReturnStatement" /\ body[i].k # <<>> THEN body[i].k[1] ELSE NullNode]

ReturnsResult(valueNode, inner) ==
  IF inner.has
    THEN Extraction(
           [valueNode EXCEPT !.k =
              [i \in DOMAIN valueNode.k |->
                 IF inner.each[i] THEN [valueNode.k[i] EXCEPT !.k = <<inner.nodes[i]>>]
                 ELSE valueNode.k[i]]],
           inner.table)
    ELSE NoExtraction(valueNode, inner.table)

\* 2. a template literal: its expressions first, then its static part
TemplateResult(valueNode, env, inner) ==
  ExtractTemplateText([valueNode EXCEPT !.k = inner.nodes], env, inner.table, inner.has)

\* 6. a concatenation: converted to a template literal when it can be
ConvertedResult(valueNode, env, depth, converted) ==
  IF converted.has THEN converted
  ELSE SidesResult(valueNode, ExtractEach(valueNode.k, env, converted.table, depth + 1))

ConcatenationResult(valueNode, env, table, depth, conversion) ==
  ConvertedResult(valueNode, env, depth,
                  IF conversion = NullNode THEN NoExtraction(valueNode, table)
                  ELSE extractValue(conversion, env, table, depth + 1))

extractValue(valueNode, env, table, depth) ==
  IF depth >= MAX_RECURSION_DEPTH THEN NoExtraction(valueNode, table)
  ELSE CASE valueNode.t = "StringLiteral" -> ExtractStringLiteral(valueNode, env, table)
    [] valueNode.t = "TemplateLiteral" ->
         TemplateResult(valueNode, env, ExtractEach(valueNode.k, env, table, depth + 1))
    [] valueNode.t = "ConditionalExpression" ->
         BranchesResult(valueNode, 2,
                        ExtractEach(SubSeq(valueNode.k, 2, 3), env, table, depth + 1))
    [] valueNode.t = "LogicalExpression" ->
         BranchesResult(valueNode, 1, ExtractEach(valueNode.k, env, table, depth + 1))
    [] valueNode.t = "ArrayExpression" ->
         ArrayResult(valueNode, ExtractEach(valueNode.k, env, table, depth + 1))
    [] valueNode.t = "BinaryExpression" /\ valueNode.v = <<"+">> ->
         ConcatenationResult(valueNode, env, table, depth,
                             buildTemplateLiteralFromBinaryExpression(valueNode))
    [] valueNode.t = "CallExpression" ->
         IF isIntlGetCall(Callee(valueNode)) THEN NoExtraction(valueNode, table)
         ELSE ArgumentsResult(valueNode,
                              ExtractEach(Arguments(valueNode), env, table, depth + 1))
    [] valueNode.t = "ObjectExpression" ->
         PropertiesResult(valueNode,
                          ExtractEach(PropertyValues(valueNode), env, table, depth + 1))
    [] valueNode.t = "JSXExpressionContainer" ->
         extractValue(valueNode.k[1], env, table, depth + 1)
    [] valueNode.t \in {"ArrowFunctionExpression", "FunctionExpression"} ->
         IF valueNode.f = "expr"
           THEN BodyResult(valueNode, extractValue(valueNode.k[1], env, table, depth + 1))
           ELSE ReturnsResult(valueNode,
                              ExtractEach(ReturnArguments(valueNode.k), env, table, depth + 1))
    [] OTHER -> NoExtraction(valueNode, table)

\* ------------------------------------------------------- Pass 2: the rewrite
\* The visitors of transformFile. The state they share is st: [table, extracted,
\* needsIntlImport, dataConstants, topLevelConstants, unrecognized]; cx is what
\* the file gives them: [env, items, isDataFile]. A visitor yields [node, st,
\* replaced], replaced telling that path.replaceWith put a new node in place.

Kept(node, st) == [node |-> node, st |-> st, replaced |-> FALSE]
Changed(node, st) == [node |-> node, st |-> st, replaced |-> FALSE]
Replaced(node, st) == [node |-> node, st |-> st, replaced |-> TRUE]

\* updateImportStats, with the table as the extraction left it
updateImportStats(st, table) ==
  [st EXCEPT !.table = table, !.needsIntlImport = TRUE, !.extracted = @ + 1]

\* textsToTranslate.find(...)?.key for a node and a type of text
FindItemKey(items, node, type) ==
  LET hits == {i \in DOMAIN items :
                 items[i].kind = "item" /\ items[i].nodeStart = node.s /\ items[i].type = type}
  IN IF hits = {} THEN Null ELSE items[CHOOSE i \in hits : \A j \in hits : i <= j].key

\* a child of the node replaced by its extraction, when there is one
ChildResult(node, i, st, extracted) ==
  IF extracted.has
    THEN Changed([node EXCEPT !.k[i] = extracted.node], updateImportStats(st, extracted.table))
    ELSE Kept(node, st)

ExtractChild(node, i, cx, st) ==
  ChildResult(node, i, st, extractValue(node.k[i], cx.env, st.table, 0))

\* several children in turn, each an extraction of its own
RECURSIVE ExtractChildren(_, _, _, _)
RestChildren(first, indexes, cx) == ExtractChildren(first.node, indexes, cx, first.st)

ExtractChildren(node, indexes, cx, st) ==
  IF indexes = <<>> THEN Kept(node, st)
  ELSE RestChildren(ExtractChild(node, Head(indexes), cx, st), Tail(indexes), cx)

VisitJSXText(node, anc, cx, st) ==
  LET text == Trim(node.v)
      key == FindItemKey(cx.items, node, "jsx-text")
  IN IF cx.isDataFile THEN Kept(node, st)
     ELSE IF text = <<>> \/ ~CHINESE_REGEX(text) \/ shouldSkipNode(anc) THEN Kept(node, st)
     ELSE IF key = Null THEN Kept(node, st)
     ELSE Replaced(JSXExpressionContainer(createIntlGetCallExpression(key, <<>>)),
                   updateImportStats(st, st.table))

VisitJSXExpressionContainer(node, anc, cx, st) ==
  IF cx.isDataFile THEN Kept(node, st)
  ELSE IF ParentType(anc) # "JSXElement" THEN Kept(node, st)
  ELSE ExtractChild(node, 1, cx, st)

AttributeResult(node, st, extracted) ==
  IF extracted.has
    THEN Changed([node EXCEPT !.k[1] = JSXExpressionContainer(extracted.node)],
                 updateImportStats(st, extracted.table))
    ELSE Kept(node, st)

VisitJSXAttribute(node, anc, cx, st) ==
  AttributeResult(node, st, extractValue(node.k[1], cx.env, st.table, 0))

VisitTemplateLiteral(node, anc, cx, st) ==
  IF shouldSkipNode(anc) \/ ParentType(anc) = "ObjectProperty" THEN Kept(node, st)
  ELSE LET result == parseTemplateLiteral(node)
           key == FindItemKey(cx.items, node, "template")
       IN IF ~CHINESE_REGEX(result.text) \/ key = Null THEN Kept(node, st)
          ELSE Replaced(createIntlGetCallExpression(key, result.vars),
                        updateImportStats(st, st.table))

\* collectUnrecognizedFromArguments: the samples below the arguments of a call
\* (path.traverse does not visit the argument itself); below a string literal
\* nothing is visited
RECURSIVE SamplesBelow(_, _)
SamplesBelow(node, reason) ==
  Flatten([i \in DOMAIN node.k |->
    LET child == node.k[i] IN
    (CASE child.t = "StringLiteral" /\ CHINESE_REGEX(child.v) ->
            <<Sample(child, child.v, "string-literal", reason)>>
       [] child.t = "TemplateLiteral" /\ CHINESE_REGEX(parseTemplateLiteral(child).text) ->
            <<Sample(child, parseTemplateLiteral(child).text, "template-literal", reason)>>
       [] child.t = "JSXText" /\ Trim(child.v) # <<>> /\ CHINESE_REGEX(Trim(child.v)) ->
            <<Sample(child, Trim(child.v), "jsx-text", reason)>>
       [] OTHER -> <<>>)
    \o SamplesBelow(child, reason)])

collectUnrecognizedFromArguments(call, reason, st) ==
  LET args == Arguments(call)
  IN [st EXCEPT !.unrecognized =
        addAllUnrecognized(@, Flatten([i \in DOMAIN args |-> SamplesBelow(args[i], reason)]))]

\* the indexes, in the children of a call, of its arguments
ArgumentIndexes(call) == [i \in 1..(Len(call.k) - 1) |-> i + 1]

VisitCallExpression(node, anc, cx, st) ==
  LET callee == Callee(node)
      funcName == getFunctionName(callee)
  IN IF (callee.t = "Identifier" /\ callee.v = <<"t">>) \/ isIntlGetCall(callee)
       THEN Kept(node, st)
     ELSE IF funcName = <<"Promise", "reject">> /\ Len(node.k) > 1
       THEN ExtractChild(node, 2, cx, st)
     ELSE IF shouldSkipFunctionCall(funcName)
       THEN Kept(node, collectUnrecognizedFromArguments(
                         node, SkipReason(OrElse(funcName, "unknown")), st))
     ELSE ExtractChildren(node, ArgumentIndexes(node), cx, st)

VisitOptionalCallExpression(node, anc, cx, st) ==
  LET funcName == getFunctionName(Callee(node))
  IN IF shouldSkipFunctionCall(funcName)
       THEN Kept(node, collectUnrecognizedFromArguments(
                         node, SkipReason(OrElse(funcName, "unknown")), st))
       ELSE ExtractChildren(node, ArgumentIndexes(node), cx, st)

createLazyGetterFromProperty(prop, returnExpression) ==
  ObjectMethod(prop.v[1], "get", returnExpression)

\* the test both places that build getters apply to a property and its new value
shouldUseGetter(prop, replacement, inRuntimeScope) ==
  /\ ~inRuntimeScope
  /\ prop.f # "computed"
  /\ prop.f # "shorthand"
  /\ IsLookupCall(replacement)

\* the nearest enclosing variable declarator (0: none)
DeclaratorParent(anc) ==
  LET ds == {j \in DOMAIN anc : anc[j].n.t = "VariableDeclarator"}
  IN IF ds = {} THEN 0 ELSE CHOOSE j \in ds : \A m \in ds : m <= j

\* the property with its new value: a getter, the value replaced, or as it was
PropertyResult(prop, st, inRuntimeScope, extracted) ==
  IF shouldUseGetter(prop, extracted.node, inRuntimeScope)
    THEN Replaced(createLazyGetterFromProperty(prop, extracted.node),
                  [(IF extracted.has THEN updateImportStats(st, extracted.table) ELSE st)
                     EXCEPT !.dataConstants = @ + 1])
  ELSE IF extracted.has
    THEN Changed([prop EXCEPT !.k[1] = extracted.node], updateImportStats(st, extracted.table))
  ELSE Kept(prop, st)

VisitObjectProperty(node, anc, cx, st) ==
  IF shouldSkipNode(anc) THEN Kept(node, st)
  ELSE IF DeclaratorParent(anc) # 0 /\ anc[DeclaratorParent(anc)].n.k[1].t = "ArrayExpression"
    THEN Kept(node, st)
  ELSE PropertyResult(node, st, isInsideRuntimeScope(anc),
                      extractValue(node.k[1], cx.env, st.table, 0))

\* the identifiers the printed callee is made of
RECURSIVE CalleeWords(_)
CalleeWords(expr) ==
  IF expr.t = "Identifier" THEN {expr.v[1]}
  ELSE IF expr.t \in {"MemberExpression", "OptionalMemberExpression"}
    THEN CalleeWords(expr.k[1]) \cup {expr.v[1]}
  ELSE {}

\* a call whose callee is a member expression that prints with 'notification'
\* and 'show' in it
IsNotificationCall(node) ==
  /\ IsCall(node)
  /\ Callee(node).t \in {"MemberExpression", "OptionalMemberExpression"}
  /\ {"notification", "show"} \subseteq CalleeWords(Callee(node))

\* the indexes of the properties named title or body
TitleBodyIndexes(node) ==
  LET RECURSIVE Go(_)
      Go(i) == IF i > Len(node.k) THEN <<>>
               ELSE (IF getObjectPropertyKey(node.k[i]) \in {<<"title">>, <<"body">>}
                       THEN <<i>> ELSE <<>>) \o Go(i + 1)
  IN Go(1)

RECURSIVE ExtractPropertyValues(_, _, _, _)
RestPropertyValues(node, indexes, cx, inner) ==
  ExtractPropertyValues([node EXCEPT !.k[Head(indexes)] = inner.node], Tail(indexes), cx,
                        inner.st)

ExtractPropertyValues(node, indexes, cx, st) ==
  IF indexes = <<>> THEN Kept(node, st)
  ELSE RestPropertyValues(node, indexes, cx, ExtractChild(node.k[Head(indexes)], 1, cx, st))

VisitObjectExpression(node, anc, cx, st) ==
  IF ~\E j \in DOMAIN anc : IsNotificationCall(anc[j].n) THEN Kept(node, st)
  ELSE ExtractPropertyValues(node, TitleBodyIndexes(node), cx, st)

\* stats.topLevelConstants.push({ name, intlKey, line, column })
TopLevelConstant(declarator, call) ==
  [name |-> declarator.v[1],
   intlKey |-> IF Len(call.k) > 1 /\ call.k[2].t = "StringLiteral" THEN call.k[2].v ELSE Null,
   loc |-> declarator.l]

\* a visitor that replaces the initializer and pushes no warning
RecordNothing(declarator, call, inRuntimeScope, st) == st

\* the push both places of the visitor make for a lookup call bound outside
\* any function
RecordTopLevel(declarator, call, inRuntimeScope, st) ==
  IF ~inRuntimeScope /\ IsLookupCall(call)
    THEN [st EXCEPT !.topLevelConstants = Append(@, TopLevelConstant(declarator, call))]
    ELSE st

applyReplacement(declarator, replacement, inRuntimeScope, st) ==
  Changed([declarator EXCEPT !.k[1] = replacement],
          RecordTopLevel(declarator, replacement, inRuntimeScope, st))

\* processObjectExpression: the properties from index i on. A property whose
\* value is or becomes a lookup call outside any function becomes a getter.
RECURSIVE processObjectExpression(_, _, _, _, _)
ProcessedProperty(object, i, inRuntimeScope, cx, result) ==
  processObjectExpression([object EXCEPT !.k[i] = result.node], i + 1, inRuntimeScope, cx,
                          result.st)

processObjectExpression(object, i, inRuntimeScope, cx, st) ==
  IF i > Len(object.k) THEN Kept(object, st)
  ELSE IF object.k[i].t # "ObjectProperty"
    THEN processObjectExpression(object, i + 1, inRuntimeScope, cx, st)
  ELSE ProcessedProperty(object, i, inRuntimeScope, cx,
         PropertyResult(object.k[i], st, inRuntimeScope,
                        extractValue(object.k[i].k[1], cx.env, st.table, 0)))

\* the elements of an array initializer that are object expressions, from i on
RECURSIVE processElements(_, _, _, _, _)
ProcessedElement(array, i, inRuntimeScope, cx, inner) ==
  processElements([array EXCEPT !.k[i] = inner.node], i + 1, inRuntimeScope, cx, inner.st)

processElements(array, i, inRuntimeScope, cx, st) ==
  IF i > Len(array.k) THEN Kept(array, st)
  ELSE IF array.k[i].t # "ObjectExpression"
    THEN processElements(array, i + 1, inRuntimeScope, cx, st)
  ELSE ProcessedElement(array, i, inRuntimeScope, cx,
                        processObjectExpression(array.k[i], 1, inRuntimeScope, cx, st))

\* the initializer put back in the declarator
WithInit(declarator, inner) == Changed([declarator EXCEPT !.k[1] = inner.node], inner.st)

\* an initializer that is neither an object nor an array expression
InitResult(declarator, inRuntimeScope, st, extracted) ==
  IF extracted.has
    THEN applyReplacement(declarator, extracted.node, inRuntimeScope,
                          updateImportStats(st, extracted.table))
    ELSE Kept(declarator, st)

\* an array initializer: extracted as a value, then its object elements
ArrayInitElements(applied, inRuntimeScope, cx) ==
  WithInit(applied.node, processElements(applied.node.k[1], 1, inRuntimeScope, cx, applied.st))

VisitVariableDeclarator(node, anc, cx, st) ==
  IF node.k[1].t = "ObjectExpression"
    THEN WithInit(node, processObjectExpression(node.k[1], 1, isInsideRuntimeScope(anc), cx, st))
  ELSE IF node.k[1].t = "ArrayExpression"
    THEN ArrayInitElements(
           InitResult(node, isInsideRuntimeScope(anc), st,
                      extractValue(node.k[1], cx.env, st.table, 0)),
           isInsideRuntimeScope(anc), cx)
  ELSE InitResult(node, isInsideRuntimeScope(anc),
                  RecordTopLevel(node, node.k[1], isInsideRuntimeScope(anc), st),
                  extractValue(node.k[1], cx.env, st.table, 0))

VisitNewExpression(node, anc, cx, st) ==
  IF Callee(node).t = "Identifier" /\ Callee(node).v = <<"Error">> /\ Len(node.k) > 1
    THEN ExtractChild(node, 2, cx, st)
    ELSE Kept(node, st)

VisitAssignmentExpression(node, anc, cx, st) ==
  IF node.k[1].t # "Identifier" THEN Kept(node, st) ELSE ExtractChild(node, 2, cx, st)

VisitReturnStatement(node, anc, cx, st) ==
  IF node.k = <<>> THEN Kept(node, st) ELSE ExtractChild(node, 1, cx, st)

VisitBinaryExpression(node, anc, cx, st) ==
  IF node.v[1] \notin {"===", "==", "!==", "!="} THEN Kept(node, st)
  ELSE ExtractChildren(node, <<1, 2>>, cx, st)

Visitor(node, anc, cx, st) ==
  CASE node.t = "JSXText" -> VisitJSXText(node, anc, cx, st)
    [] node.t = "JSXExpressionContainer" -> VisitJSXExpressionContainer(node, anc, cx, st)
    [] node.t = "JSXAttribute" -> VisitJSXAttribute(node, anc, cx, st)
    [] node.t = "TemplateLiteral" -> VisitTemplateLiteral(node, anc, cx, st)
    [] node.t = "CallExpression" -> VisitCallExpression(node, anc, cx, st)
    [] node.t = "ObjectProperty" -> VisitObjectProperty(node, anc, cx, st)
    [] node.t = "ObjectExpression" -> VisitObjectExpression(node, anc, cx, st)
    [] node.t = "VariableDeclarator" -> VisitVariableDeclarator(node, anc, cx, st)
    [] node.t = "NewExpression" -> VisitNewExpression(node, anc, cx, st)
    [] node.t = "AssignmentExpression" -> VisitAssignmentExpression(node, anc, cx, st)
    [] node.t = "ReturnStatement" -> VisitReturnStatement(node, anc, cx, st)
    [] node.t = "OptionalCallExpression" -> VisitOptionalCallExpression(node, anc, cx, st)
    [] node.t = "BinaryExpression" -> VisitBinaryExpression(node, anc, cx, st)
    [] OTHER -> Kept(node, st)

\* traverse: the visitor of a node, then its children in order; a node put
\* in place by path.replaceWith is visited in its turn
RECURSIVE Traverse(_, _, _, _)
RECURSIVE TraverseChildren(_, _, _, _, _)

Visited(visited, anc, cx) ==
  IF visited.replaced THEN Traverse(visited.node, anc, cx, visited.st)
  ELSE TraverseChildren(visited.node, 1, anc, cx, visited.st)

Traverse(node, anc, cx, st) == Visited(Visitor(node, anc, cx, st), anc, cx)

ChildTraversed(node, i, anc, cx, child) ==
  TraverseChildren([node EXCEPT !.k[i] = child.node], i + 1, anc, cx, child.st)

TraverseChildren(node, i, anc, cx, st) ==
  IF i > Len(node.k) THEN [node |-> node, st |-> st]
  ELSE ChildTraversed(node, i, anc, cx,
                      Traverse(node.k[i], Append(anc, Frame(node, i)), cx, st))

\* ------------------------------------------------------ the residual scan

\* addMissingSample: not recorded when the key is among the unrecognized or the
\* missing ones
addMissingSample(st, node, text, nodeType) ==
  LET key == buildSampleKey(node, nodeType, text) IN
  IF key \in SampleKeys(st.unrecognized) \/ key \in SampleKeys(st.missing) THEN st
  ELSE [st EXCEPT !.missing = Append(@, Sample(node, text, nodeType, <<"postTransformScan">>))]

ResidualJSXText(node, anc, st) ==
  LET text == Trim(node.v) IN
  IF text = <<>> \/ ~CHINESE_REGEX(text) THEN st
  ELSE addMissingSample(st, node, text, "jsx-text")

\* a scan that passes over the string literals
ResidualUnreported(node, anc, st) == st

\* a call or an optional call of intl.get / intl.getHTML
IsAnyLookupCall(node) == IsCall(node) /\ isIntlGetCall(Callee(node))

ResidualStringLiteral(node, anc, st) ==
  IF ~CHINESE_REGEX(node.v) \/ (\E j \in DOMAIN anc : IsAnyLookupCall(anc[j].n)) THEN st
  ELSE addMissingSample(st, node, node.v, "string-literal")

ResidualTemplateLiteral(node, anc, st) ==
  LET result == parseTemplateLiteral(node) IN
  IF ~CHINESE_REGEX(result.text) THEN st
  ELSE IF anc # <<>> /\ IsAnyLookupCall(anc[Len(anc)].n) THEN st
  ELSE addMissingSample(st, node, result.text, "template-literal")

RECURSIVE collectResidualChinese(_, _, _)
collectResidualChinese(node, anc, st) ==
  LET RECURSIVE Below(_, _)
      Below(i, acc) ==
        IF i > Len(node.k) THEN acc
        ELSE Below(i + 1, collectResidualChinese(node.k[i], Append(anc, Frame(node, i)), acc))
  IN Below(1, CASE node.t = "JSXText" -> ResidualJSXText(node, anc, st)
                [] node.t = "StringLiteral" -> ResidualStringLiteral(node, anc, st)
                [] node.t = "TemplateLiteral" -> ResidualTemplateLiteral(node, anc, st)
                [] OTHER -> st)

\* ------------------------------------------------------------- the imports
\* An import declaration: v holds the source, f the local name of the default
\* specifier ("": none).

IntlSource == "react-intl-universal"

ImportDeclaration(source, local) == Node("ImportDeclaration", <<source>>, local, <<>>, <<>>)

\* the alias declaration const intl = <local>
IsAlias(node, local) ==
  /\ node.t = "VariableDeclarator"
  /\ node.v = <<"intl">>
  /\ node.k[1].t = "Identifier"
  /\ node.k[1].v = <<local>>

\* the declarations of the library, in order: the first with a default
\* specifier decides; failing that the last one takes the default specifier
addImports(program) ==
  LET body == program.k
      libs == {i \in DOMAIN body :
                 body[i].t = "ImportDeclaration" /\ body[i].v = <<IntlSource>>}
      defaults == {i \in libs : body[i].f # ""}
      first == CHOOSE i \in defaults : \A j \in defaults : i <= j
      last == CHOOSE i \in libs : \A j \in libs : j <= i
  IN IF defaults # {}
       THEN IF body[first].f = "intl" \/ \E i \in DOMAIN body : IsAlias(body[i], body[first].f)
              THEN program
              ELSE [program EXCEPT !.k =
                      SubSeq(body, 1, first)
                      \o <<VariableDeclarator("intl", Identifier(body[first].f))>>
                      \o SubSeq(body, first + 1, Len(body))]
     ELSE IF libs # {}
       THEN [program EXCEPT !.k[last].f = "intl"]
     ELSE [program EXCEPT !.k = <<ImportDeclaration(IntlSource, "intl")>> \o body]

\* generate(ast).code: the text of the program, which carries no positions
RECURSIVE generate(_)
generate(node) ==
  [node EXCEPT !.s = 0, !.l = 0, !.k = [i \in DOMAIN node.k |-> generate(node.k[i])]]

\* a handler that adds the import whether or not a text was extracted; with it
\* a second transformation changes a file that holds no lookup call
ImportsAlways(ast, needsIntlImport) == generate(addImports(ast))

handleImportsAndGenerate(ast, needsIntlImport) ==
  generate(IF needsIntlImport THEN addImports(ast) ELSE ast)

\* ------------------------------------- collectAndGenerateKeys: the keys
\* The items are the events of kind "item", in visiting order.

Items(events) == SelectSeq(events, LAMBDA e : e.kind = "item")

\* the samples Pass 1 records for the texts it skips
RecordSkipped(events) ==
  LET skipped == SelectSeq(events, LAMBDA e : e.kind = "sample")
  IN addAllUnrecognized(<<>>, [i \in DOMAIN skipped |-> skipped[i].sample])

\* the loop over textsToTranslate: an item whose text and names an entry has
\* takes the entry's key, the others are new. Yields [items, table, new (the
\* indexes of the new items), reusedKeys, interpolations].
RECURSIVE ReuseExisting(_, _, _)
ReuseExisting(items, i, acc) ==
  IF i > Len(items) THEN acc
  ELSE LET item == items[i]
           found == FindIndex(acc.table, item.text, item.names)
           probed == SortProbed(acc.table, item.text, item.names)
       IN ReuseExisting(items, i + 1,
            IF found # 0
              THEN [acc EXCEPT !.items[i].key = probed[found].key,
                               !.table = probed,
                               !.reusedKeys = @ + 1]
              ELSE [acc EXCEPT !.table = probed,
                               !.new = Append(@, i),
                               !.interpolations = @ + Len(item.names)])

\* generateKey without the AI strategy
generateKey(text, context, strategy) == buildSemanticKey(text, context, strategy)

\* the other strategies: every new item in turn gets its key and its entry
RECURSIVE GenerateNew(_, _, _, _)
GenerateNew(items, new, table, env) ==
  IF new = <<>> THEN [items |-> items, table |-> table]
  ELSE LET i == Head(new)
           key == generateKey(items[i].text, env.context, env.strategy)
       IN GenerateNew([items EXCEPT ![i].key = key], Tail(new),
                      PutEntry(table, key, items[i].text, env.file, items[i].names), env)

\* ------------------------------------------------ generateAIKeysBatch
\* The cache is a function from [text, file] to a key, Null where there is none;
\* the provider's answer is the parsed array (<<>> when it could not be parsed).

Undefined == <<"undefined">>

\* normalizeAIKey(...).valid, for the keys of the model
isValidAIKey(key) == key # Null /\ key # Undefined /\ key # <<"null">>

CacheKey(text, file) == [text |-> text, file |-> file]

CacheGet(cache, text, file) ==
  IF CacheKey(text, file) \in DOMAIN cache THEN cache[CacheKey(text, file)] ELSE Null

CacheSet(cache, text, file, key) ==
  IF ~isValidAIKey(key) THEN cache
  ELSE [x \in DOMAIN cache \cup {CacheKey(text, file)} |->
          IF x = CacheKey(text, file) THEN key ELSE cache[x]]

\* the indexes (from 1) of the texts of a batch that the cache does not hold
Uncached(texts, file, cache) ==
  LET RECURSIVE Go(_)
      Go(i) == IF i > Len(texts) THEN <<>>
               ELSE (IF CacheGet(cache, texts[i], file) = Null THEN <<i>> ELSE <<>>) \o Go(i + 1)
  IN Go(1)

\* parsed[item.index]: the index is the item's place in the whole batch
ParsedAt(parsed, index) == IF index \in DOMAIN parsed THEN parsed[index] ELSE Undefined

\* the results and the cache after the answer: [keys, cache]
RECURSIVE FillResults(_, _, _, _, _)
FillResults(texts, file, uncached, parsed, acc) ==
  IF uncached = <<>> THEN acc
  ELSE LET index == Head(uncached)
           aiKey == ParsedAt(parsed, index)
           key == IF isValidAIKey(aiKey) THEN aiKey ELSE buildSafeFallbackKey(texts[index])
       IN FillResults(texts, file, Tail(uncached), parsed,
                      [keys |-> [acc.keys EXCEPT ![index] = key],
                       cache |-> CacheSet(acc.cache, texts[index], file, key)])

generateAIKeysBatch(texts, file, cache, parsed) ==
  FillResults(texts, file, Uncached(texts, file, cache), parsed,
              [keys |-> [i \in DOMAIN texts |-> CacheGet(cache, texts[i], file)],
               cache |-> cache])

\* the loop that stores the keys of a batch: batch holds the indexes of its items
RECURSIVE StoreBatch(_, _, _, _, _, _)
StoreBatch(items, batch, keys, batchIndex, table, env) ==
  IF batchIndex > Len(batch) THEN [items |-> items, table |-> table]
  ELSE LET i == batch[batchIndex]
           key == keys[batchIndex]
           fullKey == IF isValidAIKey(key) THEN <<env.context, ".">> \o key
                      ELSE <<env.context, ".">> \o buildSafeFallbackKey(items[i].text)
       IN StoreBatch([items EXCEPT ![i].key = fullKey], batch, keys, batchIndex + 1,
                     PutEntry(table, fullKey, items[i].text, env.file, items[i].names), env)

\* ------------------------------------------------------- key-generator.ts

\* detectKeyCollisions: the keys under which the table lists more than one text
detectKeyCollisions(table) ==
  LET keys == {table[i].key : i \in DOMAIN table}
      texts(key) == SelectSeq([i \in DOMAIN table |-> table[i]], LAMBDA e : e.key = key)
  IN {key \in keys : Len(texts(key)) > 1}

\* ------------------------------------------- src/core/extract.ts: locale files
\* A locale file is an object in insertion order: a sequence of [key, value]. A
\* value is a JSON value: a string, null, or undefined for a key that is not
\* there.

JString(text) == [type |-> "string", text |-> text]
JNull == [type |-> "null", text |-> <<>>]
JUndefined == [type |-> "undefined", text |-> <<>>]

HasEntry(object, key) == \E i \in DOMAIN object : object[i].key = key

\* object[key]
ValueAt(object, key) ==
  IF HasEntry(object, key)
    THEN object[CHOOSE i \in DOMAIN object : object[i].key = key].value
    ELSE JUndefined

\* object[key] = value
SetValue(object, key, value) ==
  IF HasEntry(object, key)
    THEN [i \in DOMAIN object |->
            IF object[i].key = key THEN [key |-> key, value |-> value] ELSE object[i]]
    ELSE Append(object, [key |-> key, value |-> value])

\* a value that every string would be kept for
ReusableAlways(value) == value.type = "string"

hasReusableTranslation(value) ==
  IF value.type \in {"null", "undefined"} THEN FALSE
  ELSE IF value.type = "string" THEN Len(Trim(value.text)) > 0
  ELSE TRUE

toSimpleTranslations(table) ==
  [i \in DOMAIN table |-> [key |-> table[i].key, value |-> JString(table[i].text)]]

\* the loop over the table's entries: the source language takes the text, another
\* language the translation it has, or the empty string
RECURSIVE MergeTable(_, _, _, _)
MergeTable(merged, simple, existing, isSourceLanguage) ==
  IF simple = <<>> THEN merged
  ELSE LET key == Head(simple).key
           existingValue == ValueAt(existing, key)
           value == IF isSourceLanguage THEN Head(simple).value
                    ELSE IF hasReusableTranslation(existingValue) THEN existingValue
                    ELSE JString(<<>>)
       IN MergeTable(SetValue(merged, key, value), Tail(simple), existing, isSourceLanguage)

\* mergedTranslations for a language: for another language than the source, the
\* translations the file has that can be reused come first
mergedTranslations(existing, simple, isSourceLanguage) ==
  MergeTable(IF isSourceLanguage THEN <<>>
             ELSE SelectSeq(existing, LAMBDA e : hasReusableTranslation(e.value)),
             simple, existing, isSourceLanguage)

\* ------------------------------------------------------------- the files
\* A file is [path, code]; its code is a program without positions, or text
\* the parser gives up on.

IndexPath == "src/pages/home/index.tsx"
DataPath == "src/pages/home/data.ts"
LoggerPath == "src/utils/logger.ts"

inferContext(filePath) ==
  IF filePath \in {IndexPath, DataPath} THEN "home" ELSE "common"

detectFileType(filePath) ==
  CASE filePath = IndexPath -> "component"
    [] filePath = DataPath -> "data"
    [] OTHER -> "utils"

isDataConfigFile(filePath) == filePath = DataPath

SyntaxError == Node("SyntaxError", <<>>, "", <<>>, <<>>)

\* the texts of the sources
TA == <<"Z1">>
TB == <<"Z2">>
TC == <<"Z3">>

Interpolated(text, name) == TemplateLiteral(<<text, <<>>>>, <<Identifier(name)>>)
Titled(value) == ObjectExpression(<<ObjectProperty("title", "", value)>>)
Statement(callee, args) == ExpressionStatement(CallExpression(callee, args))
Div(attrs, children) == ExpressionStatement(JSXElement(attrs, children))

\* const TITLE = 'T'
ConstText(text) == VariableDeclarator("TITLE", StringLiteral(text))
\* const TITLE = `T${name}`
ConstInterpolated(text) == VariableDeclarator("TITLE", Interpolated(text, "name"))
\* const config = { title: 'T' }
ConstObject(text) == VariableDeclarator("config", Titled(StringLiteral(text)))
\* const config = { menu: { title: 'T' } }
ConstNestedObject(text) ==
  VariableDeclarator("config",
    ObjectExpression(<<ObjectProperty("menu", "", Titled(StringLiteral(text)))>>))
\* const config = { [title]: 'T' }
ConstComputed(text) ==
  VariableDeclarator("config",
    ObjectExpression(<<ObjectProperty("title", "computed", StringLiteral(text))>>))
\* const list = [{ title: 'T' }]
ConstArray(text) ==
  VariableDeclarator("list", ArrayExpression(<<Titled(StringLiteral(text))>>))
\* const list = [[{ title: 'T' }]]
ConstNestedArray(text) ==
  VariableDeclarator("list",
    ArrayExpression(<<ArrayExpression(<<Titled(StringLiteral(text))>>)>>))
\* const list = [{ menu: { title: 'T' } }]
ConstArrayOfNested(text) ==
  VariableDeclarator("list",
    ArrayExpression(<<ObjectExpression(
      <<ObjectProperty("menu", "", Titled(StringLiteral(text)))>>)>>))
\* function f() { return 'T' }
FunctionText(text) == FunctionDeclaration("f", <<ReturnStatement(StringLiteral(text))>>)
\* function f() { return { title: 'T' } }
FunctionObject(text) ==
  FunctionDeclaration("f", <<ReturnStatement(Titled(StringLiteral(text)))>>)
\* function f() { return { label: 'T' } }
FunctionLabel(text) ==
  FunctionDeclaration("f",
    <<ReturnStatement(ObjectExpression(<<ObjectProperty("label", "", StringLiteral(text))>>))>>)
\* console.log('T')
LogText(text) ==
  Statement(MemberExpression(Identifier("console"), "log"), <<StringLiteral(text)>>)
\* console.log({ title: 'T' })
LogObject(text) ==
  Statement(MemberExpression(Identifier("console"), "log"), <<Titled(StringLiteral(text))>>)
\* console.log(`T${name}`)
LogInterpolated(text) ==
  Statement(MemberExpression(Identifier("console"), "log"), <<Interpolated(text, "name")>>)
\* logger.debug('T')
DebugText(text) ==
  Statement(MemberExpression(Identifier("logger"), "debug"), <<StringLiteral(text)>>)
\* logger.info('T')
InfoText(text) ==
  Statement(MemberExpression(Identifier("logger"), "info"), <<StringLiteral(text)>>)
\* status?.warn?.('T')
WarnText(text) ==
  ExpressionStatement(
    OptionalCallExpression(OptionalMemberExpression(Identifier("status"), "warn"),
                           <<StringLiteral(text)>>))
\* 'T'.toUpperCase()
UpperText(text) == Statement(MemberExpression(StringLiteral(text), "toUpperCase"), <<>>)
\* show('T')
CallText(text) == Statement(Identifier("show"), <<StringLiteral(text)>>)
\* show('T' + name)
CallConcat(text) ==
  Statement(Identifier("show"),
            <<BinaryExpression("+", StringLiteral(text), Identifier("name"))>>)
\* show(`T${name}${count}`)
CallTwoNames(text) ==
  Statement(Identifier("show"),
            <<TemplateLiteral(<<text, <<>>, <<>>>>, <<Identifier("name"), Identifier("count")>>)>>)
\* show(`T${value1}${next()}`)
CallNamedValue(text) ==
  Statement(Identifier("show"),
            <<TemplateLiteral(<<text, <<>>, <<>>>>,
                              <<Identifier("value1"), CallExpression(Identifier("next"), <<>>)>>)>>)
\* show(`T${user.name}`)
CallMember(text) ==
  Statement(Identifier("show"),
            <<TemplateLiteral(<<text, <<>>>>, <<MemberExpression(Identifier("user"), "name")>>)>>)
\* arrays within arrays around a node: [[...[node]...]]
RECURSIVE Nested(_, _)
Nested(levels, node) ==
  IF levels = 0 THEN node ELSE ArrayExpression(<<Nested(levels - 1, node)>>)
\* show([[...['T']...]]), the text within so many arrays
CallDeep(levels, text) == Statement(Identifier("show"), <<Nested(levels, StringLiteral(text))>>)
\* notification.show({ title: 'T' })
NotifyText(text) ==
  Statement(MemberExpression(Identifier("notification"), "show"), <<Titled(StringLiteral(text))>>)
\* throw new Error('T')
ThrowText(text) ==
  ExpressionStatement(
    Node("NewExpression", <<>>, "", <<>>, <<Identifier("Error"), StringLiteral(text)>>))
\* state = 'T'
AssignText(text) ==
  ExpressionStatement(
    Node("AssignmentExpression", <<"=">>, "", <<>>, <<Identifier("state"), StringLiteral(text)>>))
\* state === 'T'
CompareText(text) ==
  ExpressionStatement(BinaryExpression("===", Identifier("state"), StringLiteral(text)))
\* <div>T</div>
MarkupText(text) == Div(<<>>, <<JSXText(text)>>)
\* <div>T{name}</div>
MarkupInterpolated(text) ==
  Div(<<>>, <<JSXText(text), JSXExpressionContainer(Identifier("name"))>>)
\* <div title="T" />
MarkupAttribute(text) == Div(<<JSXAttribute("title", StringLiteral(text))>>, <<>>)
\* <>T{name}<br />U{count}</>
MarkupFragment(text, other) ==
  ExpressionStatement(
    JSXFragment(<<JSXText(text), JSXExpressionContainer(Identifier("name")),
                  JSXElement(<<>>, <<>>),
                  JSXText(other), JSXExpressionContainer(Identifier("count"))>>))

\* `T${`U${name}`}`
NestedInterpolated(text, other) ==
  ExpressionStatement(TemplateLiteral(<<text, <<>>>>, <<Interpolated(other, "name")>>))

\* intl.get('k', { name: <value> }): a lookup call the file has already
Looked(value) ==
  ExpressionStatement(
    createIntlGetCallExpression(<<"k">>, <<[name |-> "name", expr |-> value]>>))
\* intl.get('k', { name: 'T' })
LookupText(text) == Looked(StringLiteral(text))
\* intl.get('k', { name: format('T') })
LookupFormatted(text) == Looked(CallExpression(Identifier("format"), <<StringLiteral(text)>>))
\* intl.get('k', { name: <div title="T" /> })
LookupAttribute(text) == Looked(JSXElement(<<JSXAttribute("title", StringLiteral(text))>>, <<>>))

\* import <local> from 'react-intl-universal' ("": import { get } from ...)
ImportIntl(local) == ImportDeclaration(IntlSource, local)
\* const intl = i18n
AliasIntl == VariableDeclarator("intl", Identifier("i18n"))
\* ready
NoText == ExpressionStatement(Identifier("ready"))

\* the programs that import the library already
ImportingPrograms ==
  {Program(body) : body \in
     {<<ImportIntl("intl"), CallText(TA)>>,
      <<ImportIntl("i18n"), CallText(TA)>>,
      <<ImportIntl("i18n"), AliasIntl, CallText(TA)>>,
      <<ImportIntl(""), CallText(TA)>>,
      <<ImportIntl("i18n"), ImportIntl("intl"), CallText(TA)>>,
      <<ImportIntl("i18n"), NoText>>,
      <<NoText>>}}

\* the programs of the first file
Programs ==
  {Program(<<stmt>>) : stmt \in
     {ConstText(TA), ConstInterpolated(TA), ConstObject(TA), ConstNestedObject(TA),
      ConstComputed(TA), ConstArray(TA), ConstNestedArray(TA), ConstArrayOfNested(TA),
      FunctionText(TA), FunctionObject(TA), LogText(TA), LogObject(TA),
      LogInterpolated(TA), DebugText(TA), InfoText(TA), WarnText(TA), UpperText(TA),
      CallText(TA), CallConcat(TA), NotifyText(TA), ThrowText(TA), AssignText(TA),
      CompareText(TA), MarkupText(TA), MarkupInterpolated(TA), MarkupAttribute(TA),
      MarkupFragment(TA, TB), NestedInterpolated(TA, TB), CallTwoNames(TA),
      CallNamedValue(TA), CallMember(TA),
      LookupText(TA), LookupFormatted(TA), LookupAttribute(TA),
      FunctionLabel(TA),
      CallDeep(MAX_RECURSION_DEPTH - 1, TA), CallDeep(MAX_RECURSION_DEPTH, TA)}}
  \cup {Program(<<MarkupText(TA), MarkupText(TA)>>),
        Program(<<CallText(TA), CallText(TC)>>),
        Program(<<UpperText(TA), CallText(TC)>>),
        Program(<<CallText(TA), LogObject(TC)>>),
        Program(<<CallText(TA), CallText(TB), CallText(TC)>>)}

\* the programs of the second file
OtherPrograms ==
  {Program(<<stmt>>) : stmt \in
     {ConstText(TA), CallText(TA), CallText(TB), MarkupText(TA), MarkupInterpolated(TB),
      LogText(TA), UpperText(TC), CallTwoNames(TA)}}

\* the files a run can find: [path, code]
File(path, code) == [path |-> path, code |-> code]

FirstFiles ==
  {File(IndexPath, p) : p \in Programs \cup ImportingPrograms}
  \cup {File(DataPath, Program(<<ConstObject(TA)>>)), File(DataPath, SyntaxError),
        File(DataPath, Program(<<MarkupText(TA)>>)),
        File(DataPath, Program(<<ConstObject(TA), MarkupText(TB)>>))}

OtherFiles == {File(LoggerPath, p) : p \in OtherPrograms \cup {SyntaxError}}

\* ------------------------------------------------------- what a rewrite did
\* The tree Pass 2 was given and the tree it left are compared node by node.

\* the text and the interpolation names a node stands for, when it is target text
IsTarget(node) ==
  CASE node.t = "StringLiteral" -> CHINESE_REGEX(node.v)
    [] node.t = "JSXText" -> CHINESE_REGEX(Trim(node.v))
    [] node.t = "TemplateLiteral" -> CHINESE_REGEX(parseTemplateLiteral(node).text)
    [] node.t = "BinaryExpression" /\ node.v = <<"+">> ->
         /\ buildTemplateLiteralFromBinaryExpression(node) # NullNode
         /\ CHINESE_REGEX(parseTemplateLiteral(
                            buildTemplateLiteralFromBinaryExpression(node)).text)
    [] OTHER -> FALSE

TargetText(node) ==
  CASE node.t = "StringLiteral" -> node.v
    [] node.t = "JSXText" -> Trim(node.v)
    [] node.t = "TemplateLiteral" -> parseTemplateLiteral(node).text
    [] OTHER -> parseTemplateLiteral(buildTemplateLiteralFromBinaryExpression(node)).text

TargetNames(node) ==
  CASE node.t \in {"StringLiteral", "JSXText"} -> <<>>
    [] node.t = "TemplateLiteral" -> VarNames(parseTemplateLiteral(node).vars)
    [] OTHER -> VarNames(parseTemplateLiteral(
                           buildTemplateLiteralFromBinaryExpression(node)).vars)

\* the lookup call a node was replaced by: the call itself, or the call in an
\* expression container
IsLookup(node) ==
  \/ IsLookupCall(node)
  \/ node.t = "JSXExpressionContainer" /\ IsLookupCall(node.k[1])

LookupKey(node) ==
  LET call == IF IsLookupCall(node) THEN node ELSE node.k[1]
  IN IF Len(call.k) > 1 /\ call.k[2].t = "StringLiteral" THEN call.k[2].v ELSE Null

\* the sites rewritten: [text, names, key] for every target-text node of src in
\* whose place out has a lookup call
RECURSIVE Sites(_, _)
Sites(src, out) ==
  IF IsTarget(src) /\ ~IsLookup(src) /\ IsLookup(out)
    THEN {[text |-> TargetText(src), names |-> SortNames(TargetNames(src)),
           key |-> LookupKey(out)]}
  ELSE IF src.t = "ObjectProperty" /\ out.t = "ObjectMethod"
    THEN Sites(src.k[1], out.k[1].k[1])
  ELSE IF src.t = out.t /\ Len(src.k) = Len(out.k)
    THEN UNION {Sites(src.k[i], out.k[i]) : i \in DOMAIN src.k}
  ELSE {}

\* --------------------------------------------------------------- the run

\* keyGeneration.ai.batchSize
BatchSize == 2

\* the keys the provider can answer with
AIKeys == {<<"k1">>, <<"k2">>}

\* the arrays the provider can answer with for n texts; <<>>: not an array
Answers(n) == {<<>>} \cup [1..n -> AIKeys]

VARIABLES
  strategy,       \* keyGeneration.strategy
  files,          \* the files of the run, as they are on disk
  round,          \* 1: the run; 2: the transformation applied again
  fileIndex,      \* the file the loop is at
  pc,             \* "read", "keys", "rewrite", "finish", "done"
  current,        \* transformFile's locals for the file it is at
  translations,   \* the table
  aiCache,        \* cacheManager's cache
  errors,         \* the loop's errors: [round, index]
  changedFiles,   \* the loop's changedFiles: [round, index]
  report,         \* what the run wrote at its end
  last,           \* the last transformation that returned
  rewritten,      \* the sites the run rewrote: [text, names, key]
  transformed,    \* the transformations that returned: [round, index]
  locales,        \* the locale files: what the run read and what it wrote
  job,            \* the translate command: its input, its position and its files
  applied         \* a function applied on its own: its name, its input, its result

vars == <<strategy, files, round, fileIndex, pc, current, translations, aiCache, errors,
          changedFiles, report, last, rewritten, transformed, locales, job, applied>>

NewStats ==
  [table |-> <<>>, extracted |-> 0, needsIntlImport |-> FALSE, dataConstants |-> 0,
   topLevelConstants |-> <<>>, unrecognized |-> <<>>, missing |-> <<>>, reusedKeys |-> 0,
   aiGenerated |-> 0, interpolations |-> 0]

Idle ==
  [ast |-> NullNode, env |-> [context |-> "", file |-> "", strategy |-> ""],
   isDataFile |-> FALSE, items |-> <<>>, new |-> <<>>, batchStart |-> 1, st |-> NewStats,
   before |-> <<>>]

NoTransformation ==
  [round |-> 0, index |-> 0, read |-> NullNode, src |-> NullNode, out |-> NullNode,
   code |-> NullNode, isDataFile |-> FALSE, items |-> <<>>, st |-> NewStats,
   before |-> <<>>, written |-> FALSE]

NoLocales == [written |-> FALSE, read |-> <<>>, source |-> <<>>, target |-> <<>>]

\* the translate command is not running
NoJob == [pc |-> "off"]

\* no function is applied on its own
NoCall == [op |-> "none"]

\* the translations a locale file can hold when the run ends: none, or one
\* for the first key of the table and one for a key the table has not
StaleKey == <<"old", ".", "key">>

\* the translations of the two keys: [the table's key, the other key]
ExistingPairs ==
  {<<JString(<<"Hello">>), JString(<<"Bye">>)>>,
   <<JString(<<" ">>), JString(<<" ">>)>>,
   <<JString(<<>>), JString(<<"Bye">>)>>,
   <<JNull, JString(<<" ">>)>>}

ExistingFiles(table) ==
  {<<>>}
  \cup {(IF table = <<>> THEN <<>> ELSE <<[key |-> table[1].key, value |-> pair[1]]>>)
        \o <<[key |-> StaleKey, value |-> pair[2]]>> : pair \in ExistingPairs}

NoReport == [written |-> FALSE, collisions |-> {}, detail |-> <<>>, errors |-> 0, changed |-> 0]

Init ==
  /\ strategy \in {"semantic", "hash", "ai"}
  /\ files \in {<<a, b>> : a \in FirstFiles, b \in OtherFiles}
  /\ round = 1
  /\ fileIndex = 1
  /\ pc = "read"
  /\ current = Idle
  /\ translations = <<>>
  /\ aiCache = <<>>
  /\ errors = <<>>
  /\ changedFiles = <<>>
  /\ report = NoReport
  /\ last = NoTransformation
  /\ rewritten = {}
  /\ transformed = {}
  /\ locales = NoLocales
  /\ job = NoJob
  /\ applied = NoCall

\* a parser for which a file is a data file by its path alone
ParseByPath(file) ==
  LET ast == Parse(file.code, 1) IN
  [ast |-> ast,
   context |-> inferContext(file.path),
   fileType |-> detectFileType(file.path),
   isDataFile |-> isDataConfigFile(file.path)]

parseFileToAST(file) ==
  LET ast == Parse(file.code, 1) IN
  [ast |-> ast,
   context |-> inferContext(file.path),
   fileType |-> detectFileType(file.path),
   isDataFile |-> isDataConfigFile(file.path) /\ ~fileContainsJSX(ast)]

useAI == strategy = "ai"

\* the loop goes to the next file, or past the last one
\* a loop that a file that cannot be parsed ends
NextFileUnlessFailed ==
  /\ fileIndex' = fileIndex + 1
  /\ pc' = IF round = 2 THEN "done"
           ELSE IF fileIndex = Len(files) \/ files[fileIndex].code = SyntaxError
             THEN "finish" ELSE "read"
  /\ current' = Idle

NextFile ==
  /\ fileIndex' = fileIndex + 1
  /\ pc' = IF round = 2 THEN "done"
           ELSE IF fileIndex = Len(files) THEN "finish" ELSE "read"
  /\ current' = Idle

\* what transformFile holds once Pass 1 is over and the keys that need no
\* provider are there
Collected(parsed, env, events, reuse, keyed) ==
  /\ current' = [ast |-> parsed.ast, env |-> env, isDataFile |-> parsed.isDataFile,
                 items |-> keyed.items, new |-> reuse.new, batchStart |-> 1,
                 st |-> [NewStats EXCEPT !.unrecognized = RecordSkipped(events),
                                         !.reusedKeys = reuse.reusedKeys,
                                         !.interpolations = reuse.interpolations],
                 before |-> translations]
  /\ translations' = keyed.table
  /\ pc' = IF useAI /\ reuse.new # <<>> THEN "keys" ELSE "rewrite"

\* the keys of the new texts, without the AI strategy
Reused(parsed, env, events, reuse) ==
  Collected(parsed, env, events, reuse,
            IF useAI THEN [items |-> reuse.items, table |-> reuse.table]
            ELSE GenerateNew(reuse.items, reuse.new, reuse.table, env))

\* the check of the texts against the table
Passed1(parsed, env, events) ==
  Reused(parsed, env, events,
         ReuseExisting(Items(events), 1,
                       [items |-> Items(events), table |-> translations, new |-> <<>>,
                        reusedKeys |-> 0, interpolations |-> 0]))

\* Pass 1 over the tree with its markup children merged
Parsed(file, parsed) ==
  Passed1(parsed, [context |-> parsed.context, file |-> file.path, strategy |-> strategy],
          CollectNode(parsed.ast, <<>>, parsed.isDataFile))

Merged(parsed) == [parsed EXCEPT !.ast = mergeJSXTextWithExpressions(@)]

\* transformFile up to the keys: the file is parsed, its markup children are
\* merged, Pass 1 collects the texts and reuses the keys the table has; without
\* the AI strategy the new texts get their keys
TransformFile ==
  /\ pc = "read"
  /\ files[fileIndex].code # SyntaxError
  /\ Parsed(files[fileIndex], Merged(parseFileToAST(files[fileIndex])))
  /\ UNCHANGED <<strategy, files, round, fileIndex, aiCache, errors, changedFiles, report,
                 last, rewritten, transformed, locales, job, applied>>

\* the parser throws: the loop catches it
ParseFails ==
  /\ pc = "read"
  /\ files[fileIndex].code = SyntaxError
  /\ errors' = Append(errors, [round |-> round, index |-> fileIndex])
  /\ NextFile
  /\ UNCHANGED <<strategy, files, round, translations, aiCache, changedFiles, report, last,
                 rewritten, transformed, locales, job, applied>>

\* the items of the batch the loop over the new texts is at, and their texts
Batch == SubSeq(current.new, current.batchStart,
                IF current.batchStart + BatchSize - 1 < Len(current.new)
                  THEN current.batchStart + BatchSize - 1 ELSE Len(current.new))

BatchTexts == [i \in DOMAIN Batch |-> current.items[Batch[i]].text]

\* the keys of the batch are stored, and the loop goes to the next batch
Stored(result, stored) ==
  /\ aiCache' = result.cache
  /\ translations' = stored.table
  /\ current' = [current EXCEPT !.items = stored.items,
                                !.batchStart = @ + BatchSize,
                                !.st.aiGenerated = @ + Len(Batch)]

Answered(result) ==
  Stored(result, StoreBatch(current.items, Batch, result.keys, 1, translations, current.env))

\* a loop over the batches that asks for the first batch only
ProviderAnswersOnce ==
  /\ pc = "keys"
  /\ \E parsed \in Answers(Len(Uncached(BatchTexts, current.env.file, aiCache))) :
       Answered(generateAIKeysBatch(BatchTexts, current.env.file, aiCache, parsed))
  /\ pc' = "rewrite"
  /\ UNCHANGED <<strategy, files, round, fileIndex, errors, changedFiles, report, last,
                 rewritten, transformed, locales, job, applied>>

\* generateAIKeysBatch returns for a batch: the provider answered for the texts
\* the cache does not hold, and the keys are stored
ProviderAnswers ==
  /\ pc = "keys"
  /\ \E parsed \in Answers(Len(Uncached(BatchTexts, current.env.file, aiCache))) :
       Answered(generateAIKeysBatch(BatchTexts, current.env.file, aiCache, parsed))
  /\ pc' = IF current.batchStart + BatchSize > Len(current.new) THEN "rewrite" ELSE "keys"
  /\ UNCHANGED <<strategy, files, round, fileIndex, errors, changedFiles, report, last,
                 rewritten, transformed, locales, job, applied>>

\* a loop that goes to the next file while the keys of a file are awaited
ProviderUnawaited ==
  /\ pc = "keys"
  /\ Uncached(BatchTexts, current.env.file, aiCache) # <<>>
  /\ NextFile
  /\ UNCHANGED <<strategy, files, round, translations, aiCache, errors, changedFiles, report,
                 last, rewritten, transformed, locales, job, applied>>

\* callAIProvider throws: transformFile rejects and the loop catches it
ProviderFails ==
  /\ pc = "keys"
  /\ Uncached(BatchTexts, current.env.file, aiCache) # <<>>
  /\ errors' = Append(errors, [round |-> round, index |-> fileIndex])
  /\ NextFile
  /\ UNCHANGED <<strategy, files, round, translations, aiCache, changedFiles, report, last,
                 rewritten, transformed, locales, job, applied>>

\* the loop's body once transformFile has returned: the file is written when
\* something was extracted, made a getter or bound at the top level
Returned(out, st, code, write) ==
  /\ translations' = st.table
  /\ files' = IF write THEN [files EXCEPT ![fileIndex].code = code] ELSE files
  /\ changedFiles' = IF write
                       THEN Append(changedFiles, [round |-> round, index |-> fileIndex])
                       ELSE changedFiles
  /\ last' = [round |-> round, index |-> fileIndex, read |-> files[fileIndex].code,
              src |-> current.ast, out |-> out, code |-> code,
              isDataFile |-> current.isDataFile, items |-> current.items, st |-> st,
              before |-> current.before, written |-> write]
  /\ rewritten' = IF round = 1 THEN rewritten \cup Sites(current.ast, out) ELSE rewritten

Scanned(out, st) ==
  Returned(out, st, handleImportsAndGenerate(out, st.needsIntlImport),
           st.extracted > 0 \/ st.dataConstants > 0 \/ Len(st.topLevelConstants) > 0)

Passed2(pass2) == Scanned(pass2.node, collectResidualChinese(pass2.node, <<>>, pass2.st))

\* the rest of transformFile and of the loop's body: Pass 2, the residual scan,
\* the imports and the code
RewriteFile ==
  /\ pc = "rewrite"
  /\ Passed2(Traverse(current.ast, <<>>,
                      [env |-> current.env, items |-> current.items,
                       isDataFile |-> current.isDataFile],
                      [current.st EXCEPT !.table = translations]))
  /\ transformed' = transformed \cup {[round |-> round, index |-> fileIndex]}
  /\ NextFile
  /\ UNCHANGED <<strategy, round, aiCache, errors, report, locales, job, applied>>

\* the end of extract: the collisions, the locale files (each language's file is
\* read and written; the files of the two languages hold the same when the run
\* reads them), the detail and the report
FinishRun ==
  /\ pc = "finish"
  /\ report' = [written |-> TRUE, collisions |-> detectKeyCollisions(translations),
                detail |-> translations, errors |-> Len(errors),
                changed |-> Len(changedFiles)]
  /\ \E existing \in ExistingFiles(translations) :
       locales' = [written |-> TRUE, read |-> existing,
                   source |-> mergedTranslations(existing, toSimpleTranslations(translations),
                                                 TRUE),
                   target |-> mergedTranslations(existing, toSimpleTranslations(translations),
                                                 FALSE)]
  /\ pc' = "done"
  /\ UNCHANGED <<strategy, files, round, fileIndex, current, translations, aiCache, errors,
                 changedFiles, last, rewritten, transformed, job, applied>>

\* one of the files is transformed again as the run left it, with the run's table
TransformAgain ==
  /\ pc = "done"
  /\ round = 1
  /\ round' = 2
  /\ fileIndex' \in DOMAIN files
  /\ pc' = "read"
  /\ UNCHANGED <<strategy, files, current, translations, aiCache, errors, changedFiles,
                 report, last, rewritten, transformed, locales, job, applied>>

Next ==
  \/ TransformFile
  \/ ParseFails
  \/ ProviderAnswers
  \/ ProviderFails
  \/ RewriteFile
  \/ FinishRun
  \/ TransformAgain

Spec == Init /\ [][Next]_vars

\* ------------------------------------------------------- the translate command
\* translate reads the source language's file and, for a target language, the
\* file it has; a message is a sequence of characters and words, a JSON object a
\* sequence of [key, value]. The messages of the model hold no comma, so a
\* block of braces holds a name or a message and never a typed argument.

JNumber == [type |-> "number", text |-> <<>>]

\* a value that JavaScript takes for true: the model's number is not 0
Truthy(value) ==
  \/ value.type = "string" /\ value.text # <<>>
  \/ value.type = "number"

\* a value that is never translated again
NeedsNever(value, chineseText, force) == FALSE

needsTranslation(value, chineseText, force) ==
  IF force THEN TRUE
  ELSE IF value.type \in {"null", "undefined"} THEN TRUE
  ELSE IF value.type = "string" /\ Len(Trim(value.text)) = 0 THEN TRUE
  ELSE FALSE

Letters == {"name", "count", "T", "U"}
Digits == {"1"}

\* /^[_A-Za-z][_A-Za-z0-9]*$|^\d+$/
ICU_VARIABLE_NAME_PATTERN(text) ==
  /\ text # <<>>
  /\ \/ Head(text) \in Letters /\ \A i \in DOMAIN text : text[i] \in Letters \cup Digits
     \/ \A i \in DOMAIN text : text[i] \in Digits

\* the brace that closes the one at index (0: none does)
RECURSIVE ClosingBrace(_, _, _)
ClosingBrace(message, index, depth) ==
  IF index > Len(message) THEN 0
  ELSE LET next == IF message[index] = "{" THEN depth + 1
                   ELSE IF message[index] = "}" THEN depth - 1
                   ELSE depth
       IN IF message[index] = "}" /\ next = 0 THEN index
          ELSE ClosingBrace(message, index + 1, next)

\* counts is the sequence of the names counted, one per occurrence
RECURSIVE collectICUPlaceholders(_, _, _)
RECURSIVE processICUPlaceholderBlock(_, _)
collectICUPlaceholders(message, index, counts) ==
  IF index > Len(message) THEN counts
  ELSE IF message[index] # "{" THEN collectICUPlaceholders(message, index + 1, counts)
  ELSE LET end == ClosingBrace(message, index, 0)
       IN IF end = 0 THEN counts
          ELSE collectICUPlaceholders(message, end + 1,
                 processICUPlaceholderBlock(SubSeq(message, index, end), counts))

processICUPlaceholderBlock(block, counts) ==
  LET trimmed == Trim(SubSeq(block, 2, Len(block) - 1))
  IN IF trimmed = <<>> THEN counts
     ELSE IF ICU_VARIABLE_NAME_PATTERN(trimmed) THEN Append(counts, trimmed)
     ELSE collectICUPlaceholders(trimmed, 1, counts)

extractICUVariableCounts(message) == collectICUPlaceholders(message, 1, <<>>)

\* counts.size and counts.get(name) ?? 0
CountSize(counts) == Cardinality({counts[i] : i \in DOMAIN counts})
CountOf(counts, name) == Cardinality({i \in DOMAIN counts : counts[i] = name})

\* a check that every string passes
ValidIfString(original, translated) == translated.type = "string"

\* validateTranslation(original, translated).valid
validateTranslation(original, translated) ==
  IF translated.type # "string" THEN FALSE
  ELSE IF Trim(translated.text) = <<>> THEN FALSE
  ELSE LET originalVarCounts == extractICUVariableCounts(original)
           translatedVarCounts == extractICUVariableCounts(translated.text)
       IN /\ CountSize(originalVarCounts) = CountSize(translatedVarCounts)
          /\ \A i \in DOMAIN originalVarCounts :
               CountOf(translatedVarCounts, originalVarCounts[i])
                 = CountOf(originalVarCounts, originalVarCounts[i])

\* the loop over the answer's entries; it ends at the first entry that fails
\* the check and has no translation to fall back on
RECURSIVE CheckEntries(_, _, _, _)
CheckEntries(answered, inputData, existingTranslations, state) ==
  IF answered = <<>> \/ state.thrown THEN state
  ELSE LET key == Head(answered).key
           translation == Head(answered).value
           originalText == ValueAt(inputData, key)
           rest == Tail(answered)
       IN IF originalText.type = "undefined"
            THEN CheckEntries(rest, inputData, existingTranslations, state)
          ELSE IF ~validateTranslation(originalText.text, translation)
            THEN IF Truthy(ValueAt(existingTranslations, key))
                   THEN CheckEntries(rest, inputData, existingTranslations,
                          [state EXCEPT !.valid = SetValue(@, key, ValueAt(existingTranslations, key)),
                                        !.rejected = @ \cup {key}])
                   ELSE [state EXCEPT !.thrown = TRUE, !.rejected = @ \cup {key}]
          ELSE CheckEntries(rest, inputData, existingTranslations,
                 [state EXCEPT !.valid = SetValue(@, key, translation),
                               !.accepted = @ \cup {key}])

\* batchTranslate once the provider's answer is parsed: what it returns (valid),
\* whether it throws, and the keys whose translation passed or failed the check
batchTranslate(entries, existingTranslations, answered) ==
  LET inputData == [i \in DOMAIN entries |->
                      [key |-> entries[i].key, value |-> JString(entries[i].text)]]
      missingKeys == SelectSeq(entries, LAMBDA e : ~HasEntry(answered, e.key))
      withFallback == SelectSeq(missingKeys,
                        LAMBDA e : Truthy(ValueAt(existingTranslations, e.key)))
      fallbacks == [i \in DOMAIN withFallback |->
                      [key |-> withFallback[i].key,
                       value |-> ValueAt(existingTranslations, withFallback[i].key)]]
  IN IF Len(withFallback) < Len(missingKeys)
       THEN [thrown |-> TRUE, valid |-> fallbacks, accepted |-> {}, rejected |-> {}]
       ELSE CheckEntries(answered, inputData, existingTranslations,
              [thrown |-> FALSE, valid |-> fallbacks, accepted |-> {}, rejected |-> {}])

\* translateConfig.batchSize
translateBatchSize == 2

SourceTexts ==
  {<<"T">>,
   <<"T", "{", "name", "}">>,
   <<"T", "{", "$el", "}">>,
   <<"{", "name", "}", "T", "{", "name", "}">>}

\* the source language's file: three keys, the first with any of the texts
SourceFiles ==
  {<<[key |-> "k1", text |-> text],
     [key |-> "k2", text |-> <<"T", "{", "name", "}">>],
     [key |-> "k3", text |-> <<"T">>]>> : text \in SourceTexts}

\* the target language's file: none, or one with a key the source has not and
\* any of the values for k1 and for k2 (JUndefined: the file has not the key)
TargetValues1 == {JUndefined, JNull, JString(<<>>), JString(<<" ">>), JString(<<"Old">>)}
TargetValues2 == {JUndefined, JString(<<"Old", "{", "name", "}">>)}

TargetFiles ==
  {[exists |-> FALSE, content |-> <<>>]}
  \cup {[exists |-> TRUE,
         content |-> SelectSeq(<<[key |-> "k1", value |-> v1],
                                 [key |-> "stale", value |-> JString(<<"Old">>)],
                                 [key |-> "k2", value |-> v2]>>,
                               LAMBDA e : e.value.type # "undefined")] :
        v1 \in TargetValues1, v2 \in TargetValues2}

\* what the provider can answer for a key
AnswerValues ==
  {JString(<<"U">>),
   JString(<<"U", "{", "name", "}">>),
   JString(<<"U", "{", "$el", "}">>),
   JString(<<"{", "name", "}", "U", "{", "name", "}">>),
   JString(<<" ">>),
   JNumber}

\* the provider's answers to a batch: for each key a value or none, and
\* possibly a key that was not asked for
BatchAnswers(batch) ==
  {SelectSeq([i \in 1..(Len(batch) + 1) |->
               IF i <= Len(batch) THEN [key |-> batch[i].key, value |-> answer[i]]
               ELSE [key |-> "other", value |-> IF extra THEN JString(<<"U">>) ELSE JUndefined]],
             LAMBDA e : e.value.type # "undefined") :
     answer \in [DOMAIN batch -> AnswerValues \cup {JUndefined}], extra \in BOOLEAN}

extractVars ==
  <<strategy, files, round, fileIndex, pc, current, translations, aiCache, errors,
    changedFiles, report, last, rewritten, transformed, locales, applied>>

\* translate is called with the source file and the target file on disk
TranslateInit ==
  /\ strategy = "semantic"
  /\ files = <<>>
  /\ round = 1
  /\ fileIndex = 1
  /\ pc = "done"
  /\ current = Idle
  /\ translations = <<>>
  /\ aiCache = <<>>
  /\ errors = <<>>
  /\ changedFiles = <<>>
  /\ report = NoReport
  /\ last = NoTransformation
  /\ rewritten = {}
  /\ transformed = {}
  /\ locales = NoLocales
  /\ applied = NoCall
  /\ \E force \in BOOLEAN, sourceData \in SourceFiles, target \in TargetFiles :
       job = [pc |-> "start", force |-> force, sourceData |-> sourceData, target |-> target,
              existingTranslations |-> <<>>, toTranslate |-> <<>>, index |-> 0,
              results |-> <<>>, failedKeys |-> <<>>, sent |-> <<>>, answers |-> <<>>,
              accepted |-> {}, rejected |-> {}, returned |-> <<>>,
              error |-> [kind |-> "none", failed |-> 0, attempted |-> 0]]

\* results with '' for every key of sourceData it has not
RECURSIVE WithSourceKeys(_, _)
WithSourceKeys(results, sourceData) ==
  IF sourceData = <<>> THEN results
  ELSE WithSourceKeys(IF HasEntry(results, Head(sourceData).key) THEN results
                      ELSE SetValue(results, Head(sourceData).key, JString(<<>>)),
                      Tail(sourceData))

\* results[key] = translation for the entries of answered
RECURSIVE WithTranslations(_, _)
WithTranslations(results, answered) ==
  IF answered = <<>> THEN results
  ELSE WithTranslations(SetValue(results, Head(answered).key, Head(answered).value),
                        Tail(answered))

\* the catch of the loop: the translation a key of the batch had, if it had one
RECURSIVE WithFallbacks(_, _, _)
WithFallbacks(results, batch, existingTranslations) ==
  IF batch = <<>> THEN results
  ELSE WithFallbacks(IF Truthy(ValueAt(existingTranslations, Head(batch).key))
                       THEN SetValue(results, Head(batch).key,
                                     ValueAt(existingTranslations, Head(batch).key))
                       ELSE results,
                     Tail(batch), existingTranslations)

BatchCount == (Len(job.toTranslate) + translateBatchSize - 1) \div translateBatchSize

\* batches[job.index - 1]
CurrentBatch ==
  SubSeq(job.toTranslate, (job.index - 1) * translateBatchSize + 1,
         IF job.index * translateBatchSize < Len(job.toTranslate)
           THEN job.index * translateBatchSize ELSE Len(job.toTranslate))

\* translateLanguage up to its loop: it reads the target file and finds what to
\* translate; with nothing to translate it writes the file and returns
StartTranslate ==
  /\ job.pc = "start"
  /\ LET existingTranslations == IF job.target.exists THEN job.target.content ELSE <<>>
         results == WithSourceKeys(existingTranslations, job.sourceData)
         toTranslate == SelectSeq(job.sourceData,
                          LAMBDA e : needsTranslation(ValueAt(existingTranslations, e.key),
                                                      e.text, job.force))
     IN job' = IF toTranslate = <<>>
                 THEN [job EXCEPT !.pc = "returned",
                                  !.existingTranslations = existingTranslations,
                                  !.results = results,
                                  !.target = [exists |-> TRUE, content |-> results],
                                  !.returned = results]
                 ELSE [job EXCEPT !.pc = "batch",
                                  !.existingTranslations = existingTranslations,
                                  !.results = results,
                                  !.toTranslate = toTranslate,
                                  !.index = 1]
  /\ UNCHANGED extractVars

\* the catch of the loop
BatchFailed(batch, answers, rejected) ==
  [job EXCEPT !.index = @ + 1,
              !.sent = Append(@, batch),
              !.answers = @ \o answers,
              !.rejected = @ \cup rejected,
              !.failedKeys = @ \o [i \in DOMAIN batch |-> batch[i].key],
              !.results = WithFallbacks(@, batch, job.existingTranslations)]

\* one turn of the loop in which the provider answers with a JSON object
BatchAnswered ==
  /\ job.pc = "batch"
  /\ job.index <= BatchCount
  /\ LET batch == CurrentBatch IN
     \E answered \in BatchAnswers(batch) :
       LET done == batchTranslate(batch, job.existingTranslations, answered)
           results == WithTranslations(job.results, done.valid)
           answers == SelectSeq(answered, LAMBDA e : e.key # "other")
       IN job' = IF done.thrown THEN BatchFailed(batch, answers, done.rejected)
                 ELSE [job EXCEPT !.index = @ + 1,
                                  !.sent = Append(@, batch),
                                  !.answers = @ \o answers,
                                  !.accepted = @ \cup done.accepted,
                                  !.rejected = @ \cup done.rejected,
                                  !.results = results,
                                  !.target = [exists |-> TRUE, content |-> results]]
  /\ UNCHANGED extractVars

\* one turn of the loop in which the request fails or the answer is not JSON
BatchRequestFails ==
  /\ job.pc = "batch"
  /\ job.index <= BatchCount
  /\ job' = BatchFailed(CurrentBatch, <<>>, {})
  /\ UNCHANGED extractVars

\* translateLanguage after its loop
FinishTranslate ==
  /\ job.pc = "batch"
  /\ job.index > BatchCount
  /\ LET missingTranslations ==
           SelectSeq(job.sourceData, LAMBDA e : ~Truthy(ValueAt(job.results, e.key)))
     IN job' = IF job.failedKeys # <<>>
                 THEN [job EXCEPT !.pc = "thrown",
                                  !.error = [kind |-> "failed",
                                             failed |-> Len(job.failedKeys),
                                             attempted |-> Len(job.toTranslate)]]
               ELSE IF missingTranslations # <<>>
                 THEN [job EXCEPT !.pc = "thrown",
                                  !.error = [kind |-> "missing",
                                             failed |-> Len(missingTranslations),
                                             attempted |-> Len(job.toTranslate)]]
               ELSE [job EXCEPT !.pc = "returned",
                                !.target = [exists |-> TRUE, content |-> job.results],
                                !.returned = job.results]
  /\ UNCHANGED extractVars

TranslateNext ==
  \/ StartTranslate
  \/ BatchAnswered
  \/ BatchRequestFails
  \/ FinishTranslate

TranslateSpec == TranslateInit /\ [][TranslateNext]_vars

\* ------------------------------------------------ functions applied on their own

\* no run of extract and no translate command
NothingRuns ==
  /\ strategy = "semantic"
  /\ files = <<>>
  /\ round = 1
  /\ fileIndex = 1
  /\ pc = "done"
  /\ current = Idle
  /\ translations = <<>>
  /\ aiCache = <<>>
  /\ errors = <<>>
  /\ changedFiles = <<>>
  /\ report = NoReport
  /\ last = NoTransformation
  /\ rewritten = {}
  /\ transformed = {}
  /\ locales = NoLocales
  /\ job = NoJob

runVars ==
  <<strategy, files, round, fileIndex, pc, current, translations, aiCache, errors,
    changedFiles, report, last, rewritten, transformed, locales, job>>

\* the children an element can have: text to translate, with a line break,
\* other text, white space, an expression, a comment, an element
MaxChildren == 3

ChildKinds ==
  {JSXText(<<"Z1">>), JSXText(<<"Z2", "\n", " ">>), JSXText(<<"a">>), JSXText(<<" ">>),
   JSXText(<<"\n", " ">>), JSXExpressionContainer(Identifier("name")),
   JSXExpressionContainer(Node("JSXEmptyExpression", <<>>, "", <<>>, <<>>)),
   JSXElement(<<>>, <<>>)}

ChildLists == UNION {[1..n -> ChildKinds] : n \in 0..MaxChildren}

\* the children of a fragment as the parser gives them
MergeInit ==
  /\ NothingRuns
  /\ \E children \in ChildLists :
       applied = [op |-> "mergeChildren", input |-> Parse(JSXFragment(children), 1).k,
                  output |-> <<>>, done |-> FALSE]

\* mergeChildren is applied to the children
MergeChildren ==
  /\ applied.op = "mergeChildren"
  /\ ~applied.done
  /\ applied' = [applied EXCEPT !.output = mergeChildren(applied.input), !.done = TRUE]
  /\ UNCHANGED runVars

MergeNext == MergeChildren

MergeSpec == MergeInit /\ [][MergeNext]_vars

\* generateAIKeysBatch on its own: a batch of texts of one file, a cache that
\* holds some of the texts, and the array the provider answers with for the
\* texts it is sent
MaxItems == 3

BatchItems == UNION {[1..n -> {TA, TB, TC}] : n \in 1..MaxItems}

CachedKey(text) == <<"cached", "_">> \o text

CacheOf(texts) ==
  [x \in {CacheKey(text, IndexPath) : text \in texts} |-> CachedKey(x.text)]

KeysInit ==
  /\ NothingRuns
  /\ \E texts \in BatchItems, cached \in SUBSET {TA, TB, TC} :
       \E parsed \in Answers(Len(Uncached(texts, IndexPath, CacheOf(cached)))) :
         applied = [op |-> "generateAIKeysBatch", input |-> texts,
                    cache |-> CacheOf(cached), parsed |-> parsed,
                    output |-> <<>>, done |-> FALSE]

\* generateAIKeysBatch is applied to the batch
GenerateAIKeysBatch ==
  /\ applied.op = "generateAIKeysBatch"
  /\ ~applied.done
  /\ applied' = [applied EXCEPT
       !.output = generateAIKeysBatch(applied.input, IndexPath, applied.cache,
                                      applied.parsed).keys,
       !.done = TRUE]
  /\ UNCHANGED runVars

KeysNext == GenerateAIKeysBatch

KeysSpec == KeysInit /\ [][KeysNext]_vars

\* rateLimitedFetch on its own, as translate.ts has it ("translate") and as the
\* key generator has it ("keys"): the attempts made so far, the loop's index,
\* and how the call ended ("running" while it has not; "undefined" when the
\* function's body ends without a return statement)
MaxRetries == 3

FetchInit ==
  /\ NothingRuns
  /\ \E impl \in {"translate", "keys"}, retries \in 0..MaxRetries :
       applied = [op |-> "rateLimitedFetch", impl |-> impl, retries |-> retries,
                  index |-> 0, attempts |-> <<>>, stamped |-> impl = "keys",
                  outcome |-> "running"]

Fetching == applied.op = "rateLimitedFetch" /\ applied.outcome = "running"

\* fetch resolves with a response that is ok
FetchOk ==
  /\ Fetching
  /\ applied.index < applied.retries
  /\ applied' = [applied EXCEPT !.attempts = Append(@, "ok"), !.stamped = TRUE,
                                !.outcome = "returned"]
  /\ UNCHANGED runVars

\* fetch resolves with status 429: wait, then continue with the next index
FetchTooMany ==
  /\ Fetching
  /\ applied.index < applied.retries
  /\ applied' = [applied EXCEPT !.attempts = Append(@, "429"), !.index = @ + 1]
  /\ UNCHANGED runVars

\* fetch rejects, or resolves with a response that is not ok and the body
\* throws: the catch clause throws again on the last index and waits otherwise
FetchFails ==
  /\ Fetching
  /\ applied.index < applied.retries
  /\ \E how \in {"rejected", "not ok"} :
       applied' = [applied EXCEPT
         !.attempts = Append(@, how),
         !.index = IF applied.index = applied.retries - 1 THEN @ ELSE @ + 1,
         !.outcome = IF applied.index = applied.retries - 1 THEN "thrown" ELSE @]
  /\ UNCHANGED runVars

\* the loop's condition fails: translate.ts has nothing after the loop, the key
\* generator throws
FetchLoopEnds ==
  /\ Fetching
  /\ applied.index >= applied.retries
  /\ applied' = [applied EXCEPT
       !.outcome = IF applied.impl = "translate" THEN "undefined" ELSE "thrown"]
  /\ UNCHANGED runVars

FetchNext == FetchOk \/ FetchTooMany \/ FetchFails \/ FetchLoopEnds

FetchSpec == FetchInit /\ [][FetchNext]_vars

\* ================================================================ the claims

\* the text the table has under a key (Null: the key is not there)
TextAt(table, key) ==
  IF HasKey(table, key) THEN table[CHOOSE i \in DOMAIN table : table[i].key = key].text
  ELSE Null

\* a transformation of the second round of a file the first round transformed
SecondTransformation ==
  /\ last.round = 2
  /\ [round |-> 1, index |-> last.index] \in transformed

\* a lookup call with a lookup call below it
RECURSIVE HasLookupBelow(_)
HasLookupBelow(node) ==
  \E i \in DOMAIN node.k : IsLookupCall(node.k[i]) \/ HasLookupBelow(node.k[i])

RECURSIVE HasNestedLookup(_)
HasNestedLookup(node) ==
  \/ IsLookupCall(node) /\ HasLookupBelow(node)
  \/ \E i \in DOMAIN node.k : HasNestedLookup(node.k[i])

\* C1: transforming a file the run has transformed once more, with the run's
\* table, changes nothing: the code that results is the code that was read, no
\* node of the tree is replaced (so no lookup call is put in or under another),
\* nothing counts as extracted and the table has as many entries as before.
C1_Idempotent ==
  SecondTransformation =>
    /\ last.code = last.read
    /\ last.out = last.src
    /\ HasNestedLookup(last.out) = HasNestedLookup(last.src)
    /\ last.st.extracted = 0
    /\ Len(last.st.table) = Len(last.before)

\* the second round met a file the first round had rewritten
C1_Witness ==
  /\ SecondTransformation
  /\ [round |-> 1, index |-> last.index] \in {changedFiles[i] : i \in DOMAIN changedFiles}
  /\ last.code = last.read
  /\ last.st.extracted = 0

\* C2: two sites the run rewrote that have the same text and the same set of
\* interpolation names were rewritten with the same key.
C2_SameKey ==
  \A a \in rewritten : \A b \in rewritten :
    a.text = b.text /\ a.names = b.names => a.key = b.key

C2_Witness ==
  /\ pc = "done"
  /\ last.index = 2
  /\ \E a \in rewritten : \E i \in DOMAIN last.items :
       /\ last.items[i].text = a.text
       /\ last.items[i].key = a.key
       /\ TextAt(last.before, a.key) = a.text

\* the text a key stood for before the i-th text of the file got it (Null: the
\* key was free): the entry the table had, or else an earlier text of the file
EarlierText(i) ==
  IF HasKey(last.before, last.items[i].key) THEN TextAt(last.before, last.items[i].key)
  ELSE LET given == {j \in 1..(i - 1) : last.items[j].key = last.items[i].key}
       IN IF given = {} THEN Null
          ELSE last.items[CHOOSE j \in given : \A m \in given : j <= m].text

\* the texts of the file that were given a key that stood for another text
Clashes ==
  {i \in DOMAIN last.items : EarlierText(i) \notin {Null, last.items[i].text}}

\* C3: when a text is given a key that stands for another text, the table still
\* has the earlier text under the key once the file is done, and the key is in
\* the collision list at the end of the run.
C3_NoSilentOverwrite ==
  last.round = 1 =>
    \A i \in Clashes :
      /\ TextAt(last.st.table, last.items[i].key) = EarlierText(i)
      /\ pc = "done" => last.items[i].key \in report.collisions

\* the node of out in the place of the i-th child of src (the null node when the
\* place is gone): a getter holds the value of the property it was made from
OutChild(src, out, i) ==
  IF src.t = "ObjectProperty" /\ out.t = "ObjectMethod" THEN out.k[1].k[1]
  ELSE IF src.t = out.t /\ Len(src.k) = Len(out.k) THEN out.k[i]
  ELSE NullNode

\* for the texts Pass 1 records to translate, in its order: the node out has in
\* the place of the recorded node
RECURSIVE Outcomes(_, _, _, _)
Outcomes(src, out, anc, isDataFile) ==
  (IF Items(CollectOwn(src, anc, isDataFile)) # <<>> THEN <<out>> ELSE <<>>)
  \o Flatten([i \in DOMAIN src.k |->
                Outcomes(src.k[i], OutChild(src, out, i), Append(anc, Frame(src, i)),
                         isDataFile)])

ItemOutcomes == Outcomes(last.src, last.out, <<>>, last.isDataFile)

\* C4: every text Pass 1 recorded to translate is replaced in the place of the
\* recorded node, by a lookup call with the key Pass 1 gave the text.
C4_ReplacedInPlace ==
  last.round = 1 =>
    \A i \in DOMAIN last.items :
      /\ IsLookup(ItemOutcomes[i])
      /\ LookupKey(ItemOutcomes[i]) = last.items[i].key

\* the properties of out, outside runtime scopes and lookup calls, that are
\* neither computed nor shorthand and hold a lookup call as their value
RECURSIVE EagerProperties(_, _)
EagerProperties(node, anc) ==
  (IF /\ node.t = "ObjectProperty"
      /\ node.f \notin {"computed", "shorthand"}
      /\ IsLookupCall(node.k[1])
      /\ ~isInsideRuntimeScope(anc)
      /\ ~shouldSkipNode(anc)
     THEN {node.l} ELSE {})
  \cup UNION {EagerProperties(node.k[i], Append(anc, Frame(node, i))) : i \in DOMAIN node.k}

\* C5: outside runtime scopes no property that is neither computed nor
\* shorthand is left with a lookup call as its value: the property became a
\* getter, at whatever depth of arrays and objects it is.
C5_GetterAtAnyDepth ==
  last.round = 1 => EagerProperties(last.out, <<>>) = {}

\* the statements of src that bind a top-level name to a string literal or an
\* interpolated text to translate
TopLevelTexts(src) ==
  {i \in DOMAIN src.k :
     /\ src.k[i].t = "VariableDeclarator"
     /\ src.k[i].k[1].t \in {"StringLiteral", "TemplateLiteral"}
     /\ IsTarget(src.k[i].k[1])}

WarningsFor(name) ==
  {j \in DOMAIN last.st.topLevelConstants : last.st.topLevelConstants[j].name = name}

\* C6: a top-level binding of a string literal or interpolated text to translate
\* has a lookup call as its initializer afterwards, and the file's warnings hold
\* exactly one for it, with the binding's name, the key of the call and the
\* place of the binding.
C6_TopLevelWarned ==
  \A i \in TopLevelTexts(last.src) :
    /\ last.out.t = "Program"
    /\ IsLookupCall(last.out.k[i].k[1])
    /\ Cardinality(WarningsFor(last.src.k[i].v[1])) = 1
    /\ \A j \in WarningsFor(last.src.k[i].v[1]) :
         last.st.topLevelConstants[j] =
           [name |-> last.src.k[i].v[1], intlKey |-> LookupKey(last.out.k[i].k[1]),
            loc |-> getNodeLocation(last.src.k[i])]

\* a top-level constant was replaced and the file holds the warning
C6_Witness ==
  /\ TopLevelTexts(last.src) # {}
  /\ Len(last.st.topLevelConstants) = 1
  /\ last.written
  /\ \E i \in TopLevelTexts(last.src) : IsLookupCall(last.out.k[i].k[1])

\* a resolved callee name that equals a skip-list entry or starts with one
\* followed by a dot; a name that cannot be resolved matches nothing
OnSkipList(funcName) ==
  /\ funcName # Null
  /\ \E i \in DOMAIN skipFunctionCalls :
       /\ Len(skipFunctionCalls[i]) <= Len(funcName)
       /\ SubSeq(funcName, 1, Len(skipFunctionCalls[i])) = skipFunctionCalls[i]

\* the texts to translate in the arguments of the calls of src that are not
\* lookup calls: [node, out (the node in its place afterwards), name (the
\* resolved name of the nearest call's callee)]
RECURSIVE ArgumentTexts(_, _, _)
ArgumentTexts(src, out, anc) ==
  (IF /\ src.t \in {"StringLiteral", "TemplateLiteral", "JSXText"}
      /\ IsTarget(src)
      /\ ~shouldSkipNode(anc)
      /\ CallParent(anc) # 0
      /\ \E j \in CallParent(anc)..Len(anc) : IsCall(anc[j].n) /\ anc[j].i >= 2
     THEN {[node |-> src, out |-> out,
            name |-> getFunctionName(Callee(anc[CallParent(anc)].n))]}
     ELSE {})
  \cup UNION {ArgumentTexts(src.k[i], OutChild(src, out, i), Append(anc, Frame(src, i))) :
                i \in DOMAIN src.k}

\* the unrecognized samples of the file for a node
SamplesFor(node) ==
  {j \in DOMAIN last.st.unrecognized :
     /\ last.st.unrecognized[j].loc = getNodeLocation(node)
     /\ last.st.unrecognized[j].text = TargetText(node)}

\* C7: a text in the arguments of a call whose callee is on the skip-list stays
\* as it is, its text gets no entry in the table unless a site outside such
\* calls has the text, and it is recorded once as unrecognized, with the reason
\* skipFunctionCall:<name>.
C7_SkipListedUntouched ==
  \A a \in ArgumentTexts(last.src, last.out, <<>>) :
    OnSkipList(a.name) =>
      /\ a.out = a.node
      /\ \A j \in DOMAIN last.st.table :
           last.st.table[j].text = TargetText(a.node) =>
             \/ \E b \in DOMAIN last.before : last.before[b].key = last.st.table[j].key
             \/ \E i \in DOMAIN last.items : last.items[i].key = last.st.table[j].key
      /\ Cardinality(SamplesFor(a.node)) = 1
      /\ \A j \in SamplesFor(a.node) : last.st.unrecognized[j].reason = SkipReason(a.name)

\* C8: the text in the arguments of a call is recorded as unrecognized exactly
\* when the resolved name of the callee equals a skip-list entry or starts with
\* one followed by a dot; with a callee whose name cannot be resolved it is not.
C8_SkipListMatch ==
  \A a \in ArgumentTexts(last.src, last.out, <<>>) :
    SamplesFor(a.node) # {} <=> OnSkipList(a.name)

\* the texts to translate that out still holds outside lookup calls: the keys of
\* their samples
RECURSIVE ResidualKeys(_, _)
ResidualKeys(node, anc) ==
  (IF /\ node.t \in {"StringLiteral", "TemplateLiteral", "JSXText"}
      /\ IsTarget(node)
      /\ ~\E j \in DOMAIN anc : IsAnyLookupCall(anc[j].n)
     THEN {buildSampleKey(node,
                          CASE node.t = "StringLiteral" -> "string-literal"
                            [] node.t = "TemplateLiteral" -> "template-literal"
                            [] OTHER -> "jsx-text",
                          TargetText(node))}
     ELSE {})
  \cup UNION {ResidualKeys(node.k[i], Append(anc, Frame(node, i))) : i \in DOMAIN node.k}

\* C9: the missing samples are the texts to translate left outside lookup calls
\* that are not recorded as unrecognized, each once, and no sample is in both
\* lists.
C9_ResidualExact ==
  /\ SampleKeys(last.st.missing) =
       ResidualKeys(last.out, <<>>) \ SampleKeys(last.st.unrecognized)
  /\ Cardinality(SampleKeys(last.st.missing)) = Len(last.st.missing)
  /\ SampleKeys(last.st.missing) \cap SampleKeys(last.st.unrecognized) = {}

\* the files of the run that failed, and those that were written
Failed == {errors[i] : i \in DOMAIN errors}
Written == {changedFiles[i] : i \in DOMAIN changedFiles}

\* a step that adds to the error list: the failure is the file's the loop is at,
\* no file and no list of written files changes, and the loop goes on
FailureStep ==
  Len(errors') > Len(errors) =>
    /\ errors' = Append(errors, [round |-> round, index |-> fileIndex])
    /\ files' = files
    /\ changedFiles' = changedFiles
    /\ round = 1 => /\ fileIndex' = fileIndex + 1
                    /\ pc' = IF fileIndex < Len(files) THEN "read" ELSE "finish"

\* no failed file is written, and at the end of the run every file has failed
\* or has been transformed, and the outputs are written with the count of errors
FailuresContained ==
  /\ Failed \cap Written = {}
  /\ pc = "done" =>
       /\ report.written
       /\ round = 1 => report.errors = Len(errors)
       /\ \A i \in DOMAIN files :
            [round |-> 1, index |-> i] \in Failed \cup transformed

\* C10: a failure while a file is transformed is added to the run's errors, the
\* file is not written, the loop goes on to the files after it, and at the end
\* of the run every file has been processed and the outputs are written.
C10_FailureContained ==
  /\ [][FailureStep]_vars
  /\ []FailuresContained

\* the first file failed, the second was transformed and written, the run is over
C10_Witness ==
  /\ pc = "done"
  /\ round = 1
  /\ [round |-> 1, index |-> 1] \in Failed
  /\ [round |-> 1, index |-> 2] \in transformed \cap Written
  /\ report.written
  /\ report.errors = 1

\* the tree transformFile hands to Pass 1: the file parsed, its markup children
\* merged
TreeForPass1 == mergeJSXTextWithExpressions(Parse(files[fileIndex].code, 1))

\* every text Pass 1 collected has its key
AllResolved == \A i \in DOMAIN current.items : current.items[i].key # Null

\* a transformation returned in this step
Returns == last' # last \/ transformed' # transformed

OrderedStep ==
  /\ (pc = "read" /\ pc' \in {"keys", "rewrite"}) =>
       current'.ast = TreeForPass1 /\ files' = files /\ ~Returns
  /\ pc = "keys" =>
       /\ files' = files /\ ~Returns
       /\ pc' \in {"keys", "rewrite"} => current'.ast = current.ast
  /\ pc' = "rewrite" => AllResolved'
  /\ Returns => pc = "rewrite" /\ AllResolved

\* C11: Pass 1 leaves the tree as it was given it, the steps that resolve the
\* keys leave the tree and the files alone, and Pass 2 runs only once every
\* text Pass 1 collected has its key: collection, key resolution, rewriting
C11_CollectKeysRewrite == [][OrderedStep]_vars

\* Pass 2 is about to run after the provider answered for two batches
C11_Witness ==
  /\ pc = "rewrite"
  /\ useAI
  /\ Len(current.new) > BatchSize
  /\ AllResolved

\* the items of a list that match an entry of a table
Matching(items, table) ==
  {i \in DOMAIN items : FindIndex(table, items[i].text, items[i].names) # 0}

\* the step that runs Pass 1 and the check of its texts against the table
ChecksTable == pc = "read" /\ pc' \in {"keys", "rewrite"}

ReuseStep ==
  ChecksTable =>
    /\ \A i \in Matching(current'.items, translations) :
         LET item == current'.items[i] IN
         item.key = translations[FindIndex(translations, item.text, item.names)].key
    /\ current'.st.reusedKeys = Cardinality(Matching(current'.items, translations))
    /\ current'.new = <<>> => translations' = translations

\* the entries of the table that hold the text and the key of a text of the file
ReusedEntry(j) ==
  \E i \in DOMAIN current.items :
    /\ current.items[i].key = translations[j].key
    /\ current.items[i].text = translations[j].text
    /\ SameNames(current.items[i].names, translations[j].interpolations)

\* Pass 2 leaves the entries it takes the keys of its sites from as they were
RewriteStep ==
  pc = "rewrite" =>
    \A j \in DOMAIN translations :
      ReusedEntry(j) /\ translations'[j].text = translations[j].text =>
        translations'[j] = translations[j]

\* C12: a text whose text and sorted names an entry of the table has takes that
\* entry's key and counts as one reused key, and a file all of whose texts are
\* found leaves the table as it was, entry by entry
C12_ReuseLeavesTable == [][ReuseStep /\ RewriteStep]_vars

\* Pass 1 found in the table the one text of the file, a text with two names
C12_Witness ==
  /\ pc = "rewrite"
  /\ current.st.reusedKeys = 1
  /\ Len(current.items) = 1
  /\ Len(current.items[1].names) = 2
  /\ current.new = <<>>

\* the interpolated texts rewritten: [src, out] for every template literal or
\* concatenation of src in whose place out has a lookup call
RECURSIVE Interpolations(_, _)
Interpolations(src, out) ==
  IF IsTarget(src) /\ ~IsLookup(src) /\ IsLookup(out)
    THEN (IF src.t \in {"TemplateLiteral", "BinaryExpression"}
            THEN {[src |-> src, out |-> out]} ELSE {})
  ELSE IF src.t = "ObjectProperty" /\ out.t = "ObjectMethod"
    THEN Interpolations(src.k[1], out.k[1].k[1])
  ELSE IF src.t = out.t /\ Len(src.k) = Len(out.k)
    THEN UNION {Interpolations(src.k[i], out.k[i]) : i \in DOMAIN src.k}
  ELSE {}

\* the path of a member expression, its dots replaced
RECURSIVE PathName(_)
PathName(expr) ==
  IF expr.t = "MemberExpression" THEN PathName(expr.k[1]) \o "_" \o expr.v[1]
  ELSE expr.v[1]

\* the name the placeholder of the i-th expression (from 0) is to have
PlaceholderName(expr, i) ==
  CASE expr.t = "Identifier" -> expr.v[1]
    [] expr.t = "MemberExpression" -> PathName(expr)
    [] OTHER -> "value" \o ToString(i)

\* the static parts with a placeholder after each but the last
RECURSIVE PlaceholderText(_, _, _)
PlaceholderText(quasis, exprs, i) ==
  IF i > Len(quasis) THEN <<>>
  ELSE quasis[i]
       \o (IF i <= Len(exprs) THEN <<"{", PlaceholderName(exprs[i], i - 1), "}">> ELSE <<>>)
       \o PlaceholderText(quasis, exprs, i + 1)

\* the template literal an interpolated text is read as
AsTemplate(src) ==
  IF src.t = "TemplateLiteral" THEN src ELSE buildTemplateLiteralFromBinaryExpression(src)

\* the interpolation map of a lookup call: its properties, or none
MapOf(out) ==
  LET call == IF IsLookupCall(out) THEN out ELSE out.k[1]
  IN IF Len(call.k) > 2 THEN call.k[3].k ELSE <<>>

\* an expression that holds text to translate
RECURSIVE IsTargetBelow(_)
IsTargetBelow(node) == IsTarget(node) \/ \E i \in DOMAIN node.k : IsTargetBelow(node.k[i])

\* the texts this run gave a key to: those of the sites it rewrote and those
\* of the file's items
KeyedTexts(key) ==
  {r.text : r \in {x \in rewritten : x.key = key}}
  \cup {last.items[i].text : i \in {x \in DOMAIN last.items : last.items[x].key = key}}

\* a key that this run gave to two texts
GivenToTwo(key) == Cardinality(KeyedTexts(key)) > 1

InterpolationKept(site) ==
  LET tpl == AsTemplate(site.src)
      props == MapOf(site.out)
      text == PlaceholderText(tpl.q, tpl.k, 1)
  IN /\ \/ TextAt(last.st.table, LookupKey(site.out)) = text
        \/ GivenToTwo(LookupKey(site.out))
     /\ Len(props) = Len(tpl.k)
     /\ \A i \in DOMAIN tpl.k :
          /\ props[i].v = <<PlaceholderName(tpl.k[i], i - 1)>>
          /\ ~IsTargetBelow(tpl.k[i]) => generate(props[i].k[1]) = generate(tpl.k[i])

RECURSIVE Lookups(_)
Lookups(node) ==
  (IF IsLookupCall(node) THEN 1 ELSE 0)
  + (LET RECURSIVE Sum(_)
         Sum(i) == IF i > Len(node.k) THEN 0 ELSE Lookups(node.k[i]) + Sum(i + 1)
     IN Sum(1))

\* the statements of a program that bind the name intl at module level, and
\* its import declarations
BindsIntl(stmt) ==
  \/ stmt.t = "ImportDeclaration" /\ stmt.f = "intl"
  \/ stmt.t = "VariableDeclarator" /\ stmt.v = <<"intl">>

IntlBindings(program) == {i \in DOMAIN program.k : BindsIntl(program.k[i])}

ImportsOf(program) == SelectSeq(program.k, LAMBDA stmt : stmt.t = "ImportDeclaration")

\* Pass 2 put a lookup call into the tree
PutLookup == Lookups(last.out) > Lookups(last.src)

\* C14: the code of a file into which Pass 2 put a lookup call has exactly one
\* binding named intl, and the code of a file it put none into has the
\* statements the file had
C14_OneBinding ==
  last.round = 1 =>
    IF PutLookup THEN Cardinality(IntlBindings(last.code)) = 1
    ELSE last.code = last.read

\* the texts out of reach of an extraction: [src, out] for every string literal
\* to translate of src with MAX_RECURSION_DEPTH arrays or more right around it,
\* with the node out has in its place
RECURSIVE BeyondDepth(_, _, _)
BeyondDepth(src, out, arrays) ==
  IF src.t = "StringLiteral"
    THEN (IF CHINESE_REGEX(src.v) /\ arrays >= MAX_RECURSION_DEPTH
            THEN {[src |-> src, out |-> out]} ELSE {})
  ELSE IF src.t = out.t /\ Len(src.k) = Len(out.k)
    THEN UNION {BeyondDepth(src.k[i], out.k[i],
                            IF src.t = "ArrayExpression" THEN arrays + 1 ELSE 0) :
                  i \in DOMAIN src.k}
  ELSE {}

\* the text is among the missing samples of the file
ReportedMissing(node) ==
  \E i \in DOMAIN last.st.missing :
    /\ last.st.missing[i].text = node.v
    /\ last.st.missing[i].nodeType = "string-literal"
    /\ last.st.missing[i].loc = getNodeLocation(node)

\* the entries Pass 2 found in the table or that hold the key of a text of Pass 1
FromPass1(entry) ==
  \/ \E j \in DOMAIN last.before : last.before[j].key = entry.key
  \/ \E i \in DOMAIN last.items : last.items[i].key = entry.key

\* C15: a text that extraction reaches only at depth 10 or beyond is left as it
\* is, the extraction that gave up adds no entry to the table, and the residual
\* scan reports the text as a missing sample
C15_DepthLimit ==
  last.round = 1 =>
    \A text \in BeyondDepth(last.src, last.out, 0) :
      /\ text.out = text.src
      /\ ReportedMissing(text.src)
      /\ \A j \in DOMAIN last.st.table : FromPass1(last.st.table[j])

\* a file whose one text lies within ten arrays was transformed
C15_Witness ==
  /\ last.round = 1
  /\ BeyondDepth(last.src, last.out, 0) # {}
  /\ last.st.extracted = 0

\* the same call with nine arrays: the text is reached and replaced
C15_Reached ==
  /\ last.round = 1
  /\ last.src = Parse(Program(<<CallDeep(MAX_RECURSION_DEPTH - 1, TA)>>), 1)
  /\ Lookups(last.out) = 1

\* a translation that is not the empty string, and one that is not blank
NonEmpty(value) == value.type = "string" /\ value.text # <<>>
NonBlank(value) == value.type = "string" /\ Len(Trim(value.text)) > 0

\* the locale files the run wrote, for the translations Keeps picks out:
\* the target language keeps each of them, has every key of the table, with the
\* empty string where the file had none of them, and the source language has
\* the text of every key of the table
LocalesMerged(Keeps(_)) ==
  locales.written =>
    /\ \A i \in DOMAIN locales.read :
         Keeps(locales.read[i].value) =>
           ValueAt(locales.target, locales.read[i].key) = locales.read[i].value
    /\ \A j \in DOMAIN report.detail :
         LET key == report.detail[j].key IN
         /\ HasEntry(locales.target, key)
         /\ ~Keeps(ValueAt(locales.read, key)) => ValueAt(locales.target, key) = JString(<<>>)
         /\ ValueAt(locales.source, key) = JString(report.detail[j].text)

\* C16: the claim as stated, for the translations that are not the empty string
C16_KeepsNonEmpty == LocalesMerged(NonEmpty)

\* C16, amended: the same for the translations that are not blank
C16_KeepsNonBlank == LocalesMerged(NonBlank)

\* the run wrote the files of a table with a key the target language had a
\* translation of, next to a translation of a key the table has not
C16_Witness ==
  /\ locales.written
  /\ report.detail # <<>>
  /\ NonBlank(ValueAt(locales.read, report.detail[1].key))
  /\ NonBlank(ValueAt(locales.read, StaleKey))
  /\ Len(locales.target) > Len(report.detail)


\* a value of the target file that stands for no translation: none, null, or
\* a string of white space only
Untranslated(value) ==
  \/ value.type \in {"undefined", "null"}
  \/ value.type = "string" /\ \A i \in DOMAIN value.text : value.text[i] \in WhiteChars

\* the keys translate has to ask the provider for
KeysToSend ==
  {job.sourceData[i].key : i \in {x \in DOMAIN job.sourceData :
     job.force \/ Untranslated(ValueAt(job.existingTranslations, job.sourceData[x].key))}}

\* the keys of the batches translate has sent, one per key sent
KeysSent ==
  [b \in DOMAIN job.sent |-> [i \in DOMAIN job.sent[b] |-> job.sent[b][i].key]]

Flat(batches) ==
  LET RECURSIVE Join(_)
      Join(n) == IF n = 0 THEN <<>> ELSE Join(n - 1) \o batches[n]
  IN Join(Len(batches))

\* translate is over: it returned or it threw
TranslateOver == job.pc \in {"returned", "thrown"}

C17_Forced ==
  /\ job.pc = "returned"
  /\ job.force
  /\ Len(job.sent) = 2
  /\ ValueAt(job.existingTranslations, "k1") = JString(<<"Old">>)
  /\ ValueAt(job.returned, "k1") = JString(<<"U">>)


\* the names in the braces of a message, one per occurrence; a message of the
\* model has one word between two braces
Placeholders(message) ==
  LET at == {i \in DOMAIN message :
               i + 2 <= Len(message) /\ message[i] = "{" /\ message[i + 2] = "}"}
      RECURSIVE Names(_)
      Names(i) == IF i > Len(message) THEN <<>>
                  ELSE (IF i \in at THEN <<message[i + 1]>> ELSE <<>>) \o Names(i + 1)
  IN Names(1)

Occurrences(names, name) == Cardinality({i \in DOMAIN names : names[i] = name})

\* a non-blank string with the names of the source text, each as many times
KeepsPlaceholders(text, value) ==
  /\ value.type = "string"
  /\ \E i \in DOMAIN value.text : value.text[i] \notin WhiteChars
  /\ LET names == Placeholders(text) \o Placeholders(value.text)
     IN \A i \in DOMAIN names :
          Occurrences(Placeholders(text), names[i]) = Occurrences(Placeholders(value.text), names[i])

SourceText(key) ==
  job.sourceData[CHOOSE i \in DOMAIN job.sourceData : job.sourceData[i].key = key].text

\* the provider's answers that translate took
AcceptedOnlyIfKept ==
  \A key \in job.accepted : KeepsPlaceholders(SourceText(key), ValueAt(job.answers, key))

\* the provider's answers that translate did not take
RejectedReplacedOrFails ==
  \A key \in job.rejected :
    IF Truthy(ValueAt(job.existingTranslations, key))
      THEN ValueAt(job.results, key) = ValueAt(job.existingTranslations, key)
      ELSE TranslateOver =>
             /\ job.pc = "thrown"
             /\ job.error.kind = "failed"
             /\ job.error.failed = Len(job.failedKeys)
             /\ job.error.failed > 0

\* C18: a translation of the provider is accepted only if it is a non-blank
\* string with the placeholder names of the source text, each as many times;
\* a rejected one is replaced by the non-empty translation the key had, and
\* without one translate fails with an error that counts the failed entries
C18_AcceptsOnlyKept == AcceptedOnlyIfKept /\ RejectedReplacedOrFails

\* translate took an answer without the placeholder of the source text
C18_Witness ==
  /\ job.pc = "returned"
  /\ "k1" \in job.accepted
  /\ SourceText("k1") = <<"T", "{", "$el", "}">>
  /\ ValueAt(job.returned, "k1") = JString(<<"U">>)


\* a transformation is under way after this step
UnderWay == pc' \in {"keys", "rewrite"}

\* the transformation of the file the loop is at ends in this step: it returns
\* or it fails
EndsNow ==
  \/ [round |-> round, index |-> fileIndex] \in transformed' \ transformed
  \/ errors' = Append(errors, [round |-> round, index |-> fileIndex])

OneAtATimeStep ==
  /\ (pc = "read" /\ UnderWay) =>
       /\ current = Idle
       /\ round = 1 => \A i \in 1..(fileIndex - 1) :
                         [round |-> 1, index |-> i] \in Failed \cup transformed
  /\ (pc \in {"read", "keys", "rewrite"} /\ UnderWay) =>
       /\ fileIndex' = fileIndex
       /\ round' = round
       /\ current'.env.file = files[fileIndex].path
  /\ (fileIndex' # fileIndex /\ round' = round) =>
       /\ EndsNow
       /\ fileIndex' = fileIndex + 1
       /\ current' = Idle
  /\ translations' # translations =>
       /\ pc \in {"read", "keys", "rewrite"}
       /\ fileIndex' = fileIndex \/ EndsNow

\* C19: the loop transforms one file at a time: a transformation starts when
\* none is under way and every file before it has returned or failed, the
\* steps of a transformation, the awaited key generation included, stay with
\* its file, the loop goes to the next file only in the step that ends the
\* transformation, and the table changes only in steps of the file the loop is at
C19_OneFileAtATime == [][OneAtATimeStep]_vars

\* the keys of the second file are awaited after the first file returned with
\* its entries in the table
C19_Witness ==
  /\ round = 1
  /\ fileIndex = 2
  /\ pc = "keys"
  /\ current # Idle
  /\ [round |-> 1, index |-> 1] \in transformed
  /\ translations # <<>>


KeysIn(table) == {table[i].key : i \in DOMAIN table}

\* the key Pass 1 assigned to a text of the file
AssignedInPass1(site) ==
  \E i \in DOMAIN current.items :
    /\ current.items[i].kind = "item"
    /\ current.items[i].text = site.text
    /\ current.items[i].key = site.key

\* the step that runs Pass 2
Pass2Step ==
  pc = "rewrite" =>
    /\ KeysIn(translations') = KeysIn(translations)
    /\ \A site \in Sites(current.ast, last'.out) :
         \/ AssignedInPass1(site)
         \/ /\ site.key \in KeysIn(current.before)
            /\ \E i \in DOMAIN current.items :
                 current.items[i].kind = "item" /\ current.items[i].text = site.text

\* C20: Pass 2 adds no key to the table, every key it puts into the tree is
\* the key Pass 1 assigned to that text or a key the table had before the
\* file, and a text Pass 1 assigned no key to is left as it was
C20_Pass2AddsNothing == [][Pass2Step]_vars


\* the lookup calls of src are in out as they were
RECURSIVE LookupsKept(_, _)
LookupsKept(src, out) ==
  IF IsLookupCall(src) THEN out = src
  ELSE IF src.t = out.t /\ Len(src.k) = Len(out.k)
    THEN \A i \in DOMAIN src.k : LookupsKept(src.k[i], out.k[i])
  ELSE TRUE

\* C21: a transformation leaves every lookup call of the file, with all that
\* is in its arguments, as it was, and puts no lookup call into the arguments
\* of a lookup call
C21_LookupArgumentsKept ==
  last.round # 0 =>
    /\ LookupsKept(last.src, last.out)
    /\ ~HasNestedLookup(last.src) => ~HasNestedLookup(last.out)


\* the properties of src inside a function body are properties in out, and
\* one whose text was extracted has the lookup call for its value
RECURSIVE PlainInside(_, _, _)
PlainInside(src, out, inside) ==
  IF src.t = "ObjectProperty" /\ inside /\ out.t # "ObjectProperty" THEN FALSE
  ELSE IF src.t = "ObjectProperty" /\ inside /\ IsTarget(src.k[1]) /\ out # src
    THEN IsLookupCall(out.k[1])
  ELSE IF src.t = out.t /\ Len(src.k) = Len(out.k)
    THEN \A i \in DOMAIN src.k :
           PlainInside(src.k[i], out.k[i], inside \/ src.t \in RuntimeScopeTypes)
  ELSE TRUE

\* C22: a property of an object inside the body of a function is never made
\* a getter: it stays a property, with the lookup call for its value when
\* its text was extracted
C22_NoGetterInFunction == last.round # 0 => PlainInside(last.src, last.out, FALSE)


\* a child that belongs to a run: text, or an expression that is not a comment
InRun(children, i) ==
  \/ children[i].t = "JSXText"
  \/ children[i].t = "JSXExpressionContainer" /\ children[i].k[1].t # "JSXEmptyExpression"

\* the maximal run that holds child i: [from, to]
RunAround(children, i) ==
  LET from == CHOOSE a \in 1..i :
                /\ \A j \in a..i : InRun(children, j)
                /\ a = 1 \/ ~InRun(children, a - 1)
      to == CHOOSE b \in i..Len(children) :
              /\ \A j \in i..b : InRun(children, j)
              /\ b = Len(children) \/ ~InRun(children, b + 1)
  IN [from |-> from, to |-> to]

\* a run with target text in a text, an expression, and a text that is not
\* white space only
MixedRun(children, run) ==
  /\ \E j \in run.from..run.to :
       children[j].t = "JSXText" /\ \E c \in DOMAIN children[j].v : children[j].v[c] \in ZhChars
  /\ \E j \in run.from..run.to : children[j].t = "JSXExpressionContainer"
  /\ \E j \in run.from..run.to :
       children[j].t = "JSXText" /\ \E c \in DOMAIN children[j].v : children[j].v[c] \notin WhiteChars

\* the texts of the children from..to in one text, each without its line
\* breaks and the white space after them
RECURSIVE TextsBetween(_, _, _)
TextsBetween(children, from, to) ==
  IF from > to THEN <<>>
  ELSE normalizeJSXTextContent(children[from].v) \o TextsBetween(children, from + 1, to)

\* the interpolated text that stands for a run
RunNode(children, run) ==
  LET at == {j \in run.from..run.to : children[j].t = "JSXExpressionContainer"}
      nth(n) == CHOOSE j \in at : Cardinality({x \in at : x < j}) = n - 1
      edge(n) == IF n = 0 THEN run.from - 1
                 ELSE IF n > Cardinality(at) THEN run.to + 1 ELSE nth(n)
  IN JSXExpressionContainer(
       TemplateLiteral([n \in 1..(Cardinality(at) + 1) |->
                          TextsBetween(children, edge(n - 1) + 1, edge(n) - 1)],
                       [n \in 1..Cardinality(at) |-> cloneNode(children[nth(n)].k[1])]))

\* what stands for child i among the new children
Piece(children, i) ==
  IF ~InRun(children, i) \/ ~MixedRun(children, RunAround(children, i)) THEN <<children[i]>>
  ELSE IF RunAround(children, i).from = i THEN <<RunNode(children, RunAround(children, i))>>
  ELSE <<>>

RECURSIVE Pieces(_, _)
Pieces(children, i) ==
  IF i > Len(children) THEN <<>> ELSE Piece(children, i) \o Pieces(children, i + 1)

\* C23: the merger puts one interpolated text in the place of every maximal
\* run of text and expression children that has target text in a text, an
\* expression and a text that is not white space, with the static parts and
\* the expressions in the children's order and one more static part than
\* expressions, and leaves every other child as it was and where it was
C23_MixedRunsMerged ==
  (applied.op = "mergeChildren" /\ applied.done) =>
    /\ applied.output = Pieces(applied.input, 1)
    /\ \A i \in DOMAIN applied.output :
         applied.output[i] \notin {applied.input[j] : j \in DOMAIN applied.input} =>
           Len(applied.output[i].k[1].q) = Len(applied.output[i].k[1].k) + 1

\* a run of a text and an expression was merged next to an element that was
\* left where it was, and a run without target text was left as it was
C23_Witness ==
  /\ applied.op = "mergeChildren"
  /\ applied.done
  /\ Len(applied.input) = 3
  /\ \/ /\ Len(applied.output) = 2
        /\ applied.output[2] = applied.input[3]
        /\ applied.output[1].k[1].t = "TemplateLiteral"
     \/ /\ applied.output = applied.input
        /\ applied.input[1].v = <<"a">>
        /\ applied.input[2].t = "JSXExpressionContainer"


\* the markup texts of src that are text to translate outside lookup calls,
\* each with the node out has in its place: [node, out]
RECURSIVE MarkupTexts(_, _)
MarkupTexts(src, out) ==
  IF src.t = "JSXText" THEN (IF IsTarget(src) THEN {[node |-> src, out |-> out]} ELSE {})
  ELSE IF IsLookupCall(src) THEN {}
  ELSE IF src.t = out.t /\ Len(src.k) = Len(out.k)
    THEN UNION {MarkupTexts(src.k[i], out.k[i]) : i \in DOMAIN src.k}
  ELSE {}

\* the file of the last transformation is a data-configuration file by its path
LastIsDataConfig == last.round # 0 /\ isDataConfigFile(files[last.index].path)

\* C24: in a file classified as a pure data-configuration file every markup
\* text to translate is left as it is and recorded once as unrecognized with
\* the reason data-file-skip; a data-configuration file with markup is not
\* classified as pure, and its markup texts are replaced by lookup calls whose
\* keys the table has with their texts
C24_DataFileMarkup ==
  /\ (last.round # 0 /\ last.isDataFile) =>
       \A m \in MarkupTexts(last.src, last.out) :
         /\ m.out = m.node
         /\ \E j \in SamplesFor(m.node) :
              /\ last.st.unrecognized[j].reason = <<"data-file-skip">>
              /\ \A x \in SamplesFor(m.node) : x = j
  /\ (LastIsDataConfig /\ fileContainsJSX(last.src)) =>
       /\ ~last.isDataFile
       /\ \A m \in MarkupTexts(last.src, last.out) :
            /\ IsLookup(m.out)
            /\ TextAt(last.st.table, LookupKey(m.out)) = TargetText(m.node)

\* a data-configuration file with markup was transformed: its markup text and
\* the text of its object were extracted
C24_Witness ==
  /\ LastIsDataConfig
  /\ last.round = 1
  /\ ~last.isDataFile
  /\ Cardinality(MarkupTexts(last.src, last.out)) = 1
  /\ last.st.extracted = 2


\* the place of item i in the list sent to the provider (0: it is not sent)
RequestPlace(uncached, i) ==
  IF \E j \in DOMAIN uncached : uncached[j] = i
    THEN CHOOSE j \in DOMAIN uncached : uncached[j] = i
    ELSE 0

\* C25: generateAIKeysBatch returns one key for every item, in the order of the
\* items: the cached key of an item the cache holds, and for another item the
\* key the provider returned at the item's place in the list it was sent.
C25_KeysByRequestPlace ==
  (applied.op = "generateAIKeysBatch" /\ applied.done) =>
    LET uncached == Uncached(applied.input, IndexPath, applied.cache)
    IN /\ Len(applied.output) = Len(applied.input)
       /\ \A i \in DOMAIN applied.input :
            LET place == RequestPlace(uncached, i)
            IN IF place = 0
                 THEN applied.output[i] = CacheGet(applied.cache, applied.input[i], IndexPath)
                 ELSE place \in DOMAIN applied.parsed =>
                        applied.output[i] = applied.parsed[place]


\* C26: rateLimitedFetch makes at most maxRetries attempts and ends with a
\* response that is ok or with an error thrown; it never returns without a
\* response, whatever the last attempt was and also when maxRetries is 0.
C26_FetchReturnsOrThrows ==
  applied.op = "rateLimitedFetch" =>
    /\ Len(applied.attempts) <= applied.retries
    /\ applied.outcome \in {"running", "returned", "thrown"}
    /\ applied.outcome = "returned" => applied.attempts[Len(applied.attempts)] = "ok"


\* C27: at the end of a run the table has every key the run put into a file,
\* and the text it has under the key is the text of the site the key replaced,
\* with {name} in the place of every interpolation.
C27_InsertedKeysInTable ==
  pc = "done" =>
    \A site \in rewritten :
      /\ HasKey(translations, site.key)
      /\ TextAt(translations, site.key) = site.text


\* the keys of the lookup calls of a tree
RECURSIVE LookupKeysIn(_)
LookupKeysIn(node) ==
  (IF IsLookupCall(node) THEN {LookupKey(node)} ELSE {})
  \cup UNION {LookupKeysIn(node.k[i]) : i \in DOMAIN node.k}

\* a warning was recorded for the binding a frame stands at, with the key
WarnedBinding(frame, key) ==
  /\ frame.n.t = "VariableDeclarator"
  /\ \E j \in DOMAIN last.st.topLevelConstants :
       /\ last.st.topLevelConstants[j].name = frame.n.v[1]
       /\ last.st.topLevelConstants[j].intlKey = key

\* the keys of the lookup calls of out that are below the initializer of a
\* binding, outside every function body (a getter is one) and outside every
\* other lookup call, and are not the initializer of a binding with a warning
RECURSIVE LoadTimeLookups(_, _)
LoadTimeLookups(node, anc) ==
  (IF /\ IsLookupCall(node)
      /\ \E j \in DOMAIN anc : anc[j].n.t = "VariableDeclarator"
      /\ ~isInsideRuntimeScope(anc)
      /\ ~shouldSkipNode(anc)
      /\ ~WarnedBinding(anc[Len(anc)], LookupKey(node))
     THEN {LookupKey(node)} ELSE {})
  \cup UNION {LoadTimeLookups(node.k[i], Append(anc, Frame(node, i))) : i \in DOMAIN node.k}

\* C28: a lookup call the transformation put into the initializer of a binding,
\* outside every function body, at any depth of arrays, conditionals and
\* objects, is inside a getter or is the initializer of a binding for which a
\* warning was recorded.
C28_NoLookupAtLoad ==
  last.round = 1 => LoadTimeLookups(last.out, <<>>) \subseteq LookupKeysIn(last.src)


\* the slots of the interpolation map of a lookup call that have the name of
\* another slot although the expression is another one
SharedSlots(out) ==
  LET props == MapOf(out)
  IN {i \in DOMAIN props :
        \E j \in DOMAIN props :
          /\ j # i
          /\ props[j].v = props[i].v
          /\ generate(props[j].k[1]) # generate(props[i].k[1])}

\* C29: in one interpolated text no two different embedded expressions get the
\* same slot name: the interpolation map of the lookup call has one entry with
\* a name of its own for every slot.
C29_DistinctSlotNames ==
  last.round = 1 =>
    \A site \in Interpolations(last.src, last.out) : SharedSlots(site.out) = {}


\* the table as it was when the loop came to the file it is at
TableAtStart == IF pc = "read" THEN translations ELSE current.before

\* a step in which the transformation of the file fails leaves the table as it
\* was when the file started
FailureKeepsTable == errors' # errors => translations' = TableAtStart

\* C30: when the transformation of a file fails, the table is the table from
\* before the file: no entry made while the file was processed stays in it.
C30_FailedFileLeavesTable == [][FailureKeepsTable]_vars


============================================================================
